---- MODULE Spec2Model ----
(***************************************************************************)
(* The markdown -> Google Docs request compiler of markdownToGoogleDocs.ts *)
(* (convertMarkdownToRequests and its handlers), as a state machine that   *)
(* walks a markdown-it token stream one token at a time and then           *)
(* finalizes.  Strings are sequences of one-character strings, so that     *)
(* lengths, suffix tests, splitting and the task-prefix match are computed *)
(* and not assumed.                                                        *)
(***************************************************************************)
EXTENDS Integers, Sequences, FiniteSets, TLC

VARIABLES
    pc,          \* "start" | "walking" | "returned" | "raised": position in convertMarkdownToRequests
    startIndex,  \* the startIndex argument
    context,     \* the ConversionContext of this call
    ntokens,     \* how many top-level tokens of parsed.tokens were consumed
    tokens,      \* the tokens consumed so far (recorded for documents and inline runs only)
    open,        \* the tokenizer's stack of open block containers (well-formed documents only)
    nblocks,     \* the leaf blocks and list items the tokenizer has opened (well-formed documents only)
    result,      \* the returned request list (NoResult until the call returns)
    error,       \* the message of the raised MarkdownConversionError (NoError if none)
    raised,      \* the error object that leaves the call (NoRaised if none)
    other,       \* a second call of convertMarkdownToRequests in progress (NoCall if none)
    docs,        \* the Docs client: the batchUpdate calls it received, and how many are in flight
    split,       \* the frame of executeBatchUpdateWithSplitting (NoSplit if not called)
    tool         \* the frame of replaceDocumentWithMarkdown's execute (NoTool if not called)

vars == <<pc, startIndex, context, ntokens, tokens, open, nblocks, result, error, raised, other, docs, split, tool>>

(***************************************************************************)
(* Bounds of the model.                                                    *)
(***************************************************************************)
MaxTokens == 3        \* length of an arbitrary token sequence
MaxInline == 4        \* length of an arbitrary run of inline tokens
MaxBlocks == 4        \* leaf blocks (paragraph, heading, rule, fence) plus list items of a well-formed document

(***************************************************************************)
(* Characters and strings.                                                 *)
(***************************************************************************)
NL == "\n"
TAB == "\t"
SP == " "
Whitespace == {SP, TAB, NL}

Undefined == 0 - 1    \* JavaScript undefined, for an optional number
NoTab == "undefined" \* no tabId argument (JavaScript undefined)
NoError == ""
NoResult == <<[noResult |-> TRUE]>>     \* the call has not returned a list

Last(s) == s[Len(s)]
Front(s) == SubSeq(s, 1, Len(s) - 1)

\* String.prototype.endsWith for the two suffixes the code asks about
EndsWithNewline(text) == Len(text) >= 1 /\ Last(text) = NL
EndsWithDoubleNewline(text) == Len(text) >= 2 /\ text[Len(text)] = NL /\ text[Len(text) - 1] = NL

\* '\t'.repeat(n)
RECURSIVE Repeat(_, _)
Repeat(ch, n) == IF n <= 0 THEN <<>> ELSE <<ch>> \o Repeat(ch, n - 1)

\* text.split('\n')
RECURSIVE Split(_)
Split(text) ==
    IF \A i \in 1..Len(text) : text[i] # NL
    THEN <<text>>
    ELSE LET i == CHOOSE k \in 1..Len(text) :
                      text[k] = NL /\ \A j \in 1..(k - 1) : text[j] # NL
         IN <<SubSeq(text, 1, i - 1)>> \o Split(SubSeq(text, i + 1, Len(text)))

\* length of the match of /^\[( |x|X)\]\s+/ in text, 0 when it does not match
RECURSIVE WhitespaceRun(_, _)
WhitespaceRun(text, from) ==
    IF from <= Len(text) /\ text[from] \in Whitespace
    THEN 1 + WhitespaceRun(text, from + 1)
    ELSE 0

taskPrefixMatch(text) ==
    IF /\ Len(text) >= 4
       /\ text[1] = "["
       /\ text[2] \in {" ", "x", "X"}
       /\ text[3] = "]"
       /\ text[4] \in Whitespace
    THEN 3 + WhitespaceRun(text, 4)
    ELSE 0

(***************************************************************************)
(* Tokens (markdown-it Token: type, tag, attrs, content, children).        *)
(***************************************************************************)
Tok(type) == [type |-> type, tag |-> "", attrs |-> <<>>, content |-> <<>>, children |-> <<>>]
TokTag(type, tag) == [Tok(type) EXCEPT !.tag = tag]
TokContent(type, content) == [Tok(type) EXCEPT !.content = content]
TokAttrs(type, attrs) == [Tok(type) EXCEPT !.attrs = attrs]
TokChildren(type, children) == [Tok(type) EXCEPT !.children = children]

Null == "null"

\* getLinkHref: the value of the first href attribute, or null
getLinkHref(tok) ==
    IF tok.type # "link_open" THEN Null
    ELSE IF \E i \in 1..Len(tok.attrs) : tok.attrs[i][1] = "href"
         THEN LET i == CHOOSE k \in 1..Len(tok.attrs) :
                           tok.attrs[k][1] = "href"
                           /\ \A j \in 1..(k - 1) : tok.attrs[j][1] # "href"
              IN tok.attrs[i][2]
         ELSE Null

\* parseInt of the digit that follows "h" in the tag
TagDigit ==
    [t \in {"h0", "h1", "h2", "h3", "h4", "h5", "h6"} |->
        CASE t = "h0" -> 0 [] t = "h1" -> 1 [] t = "h2" -> 2 [] t = "h3" -> 3
          [] t = "h4" -> 4 [] t = "h5" -> 5 [] t = "h6" -> 6]

\* getHeadingLevel: the level of a heading token, or Undefined (null)
getHeadingLevel(tok) ==
    IF tok.type \notin {"heading_open", "heading_close"} THEN Undefined
    ELSE IF tok.tag \in DOMAIN TagDigit THEN TagDigit[tok.tag] ELSE Undefined

(***************************************************************************)
(* The conversion context.                                                 *)
(***************************************************************************)
NewContext(start, tabId) ==
    [ currentIndex |-> start,
      insertRequests |-> <<>>,
      formatRequests |-> <<>>,
      textRanges |-> <<>>,
      formattingStack |-> <<>>,
      listStack |-> <<>>,
      paragraphRanges |-> <<>>,
      pendingListItems |-> <<>>,
      openListItemStack |-> <<>>,
      hrRanges |-> <<>>,
      tabId |-> tabId,
      currentParagraphStart |-> Undefined,
      currentHeadingLevel |-> Undefined ]

\* if (context.tabId) location.tabId = context.tabId: undefined and '' are both falsy
Location(index, tabId) ==
    IF tabId \notin {NoTab, ""} THEN [index |-> index, tabId |-> tabId]
    ELSE [index |-> index]

\* faulty variant of Range (sensitivity of C18): the tabId is never set on a range
RangeWithoutTab(s, e, tabId) == [startIndex |-> s, endIndex |-> e]

Range(s, e, tabId) ==
    IF tabId \notin {NoTab, ""} THEN [startIndex |-> s, endIndex |-> e, tabId |-> tabId]
    ELSE [startIndex |-> s, endIndex |-> e]

\* faulty variant of insertText (sensitivity of C2): the offset advances by one, whatever the text
insertTextAdvanceOne(text, ctx) ==
    [ctx EXCEPT
        !.insertRequests =
            Append(@, [insertText |-> [location |-> Location(ctx.currentIndex, ctx.tabId),
                                       text |-> text]]),
        !.currentIndex = @ + 1]

insertText(text, ctx) ==
    [ctx EXCEPT
        !.insertRequests =
            Append(@, [insertText |-> [location |-> Location(ctx.currentIndex, ctx.tabId),
                                       text |-> text]]),
        !.currentIndex = @ + Len(text)]

\* faulty variant of lastInsertEndsWithNewline (sensitivity of C19): a terminator is never seen
lastInsertNeverEndsWithNewline(ctx) == FALSE

lastInsertEndsWithNewline(ctx) ==
    /\ Len(ctx.insertRequests) > 0
    /\ EndsWithNewline(Last(ctx.insertRequests).insertText.text)

lastInsertEndsWithDoubleNewline(ctx) ==
    /\ Len(ctx.insertRequests) > 0
    /\ EndsWithDoubleNewline(Last(ctx.insertRequests).insertText.text)

\* index into pendingListItems of the innermost open list item, 0 when there is none
getCurrentOpenListItem(ctx) ==
    IF Len(ctx.openListItemStack) = 0 THEN 0 ELSE Last(ctx.openListItemStack)

(***************************************************************************)
(* Formatting stack.  A fragment is a function from the style keys it      *)
(* defines to their values.                                                *)
(***************************************************************************)
Fragment(key, value) == [k \in {key} |-> value]
EmptyFormatting == [k \in {} |-> TRUE]

Override(merged, state) ==
    [k \in DOMAIN merged \cup DOMAIN state |->
        IF k \in DOMAIN state THEN state[k] ELSE merged[k]]

RECURSIVE mergeFrom(_, _, _)
mergeFrom(stack, i, merged) ==
    IF i > Len(stack) THEN merged
    ELSE mergeFrom(stack, i + 1, Override(merged, stack[i]))

\* faulty variant of mergeFormattingStack (sensitivity of C5): the oldest fragment wins a field
RECURSIVE mergeOldestWinsFrom(_, _, _)
mergeOldestWinsFrom(stack, i, merged) ==
    IF i > Len(stack) THEN merged
    ELSE mergeOldestWinsFrom(stack, i + 1, Override(stack[i], merged))

mergeOldestWins(stack) == mergeOldestWinsFrom(stack, 1, EmptyFormatting)

mergeFormattingStack(stack) == mergeFrom(stack, 1, EmptyFormatting)

hasFormatting(formatting) ==
    \/ ("bold" \in DOMAIN formatting /\ formatting["bold"] = TRUE)
    \/ ("italic" \in DOMAIN formatting /\ formatting["italic"] = TRUE)
    \/ ("strikethrough" \in DOMAIN formatting /\ formatting["strikethrough"] = TRUE)
    \/ ("code" \in DOMAIN formatting /\ formatting["code"] = TRUE)
    \/ "link" \in DOMAIN formatting

RemoveAt(s, i) == SubSeq(s, 1, i - 1) \o SubSeq(s, i + 1, Len(s))

\* faulty variant of popFormatting (sensitivity of C24): the top entry is popped, whatever it carries
popFormattingTop(ctx, type) ==
    IF Len(ctx.formattingStack) = 0 THEN ctx
    ELSE [ctx EXCEPT !.formattingStack = Front(@)]

popFormatting(ctx, type) ==
    LET stack == ctx.formattingStack
        hits == {i \in 1..Len(stack) : type \in DOMAIN stack[i]}
    IN IF hits = {} THEN ctx
       ELSE LET i == CHOOSE k \in hits : \A j \in hits : j <= k
            IN [ctx EXCEPT !.formattingStack = RemoveAt(stack, i)]

pushFormatting(ctx, fragment) ==
    [ctx EXCEPT !.formattingStack = Append(@, fragment)]

(***************************************************************************)
(* Handlers.  Each takes the context and returns the context it leaves.    *)
(***************************************************************************)
handleHeadingOpen(tok, ctx) ==
    LET level == getHeadingLevel(tok)
    IN IF level # Undefined /\ level # 0
       THEN [ctx EXCEPT !.currentHeadingLevel = level,
                        !.currentParagraphStart = ctx.currentIndex]
       ELSE ctx

\* faulty variant of handleHeadingClose (sensitivity of C13): the range is taken after the terminator
handleHeadingCloseWithTerminator(ctx) ==
    IF /\ ctx.currentHeadingLevel # Undefined
       /\ ctx.currentHeadingLevel # 0
       /\ ctx.currentParagraphStart # Undefined
    THEN LET inserted == insertText(<<NL>>, ctx)
             pushed == [inserted EXCEPT !.paragraphRanges =
                            Append(@, [startIndex |-> ctx.currentParagraphStart,
                                       endIndex |-> inserted.currentIndex,
                                       namedStyleType |-> <<"HEADING", ctx.currentHeadingLevel>>])]
         IN [pushed EXCEPT !.currentHeadingLevel = Undefined,
                           !.currentParagraphStart = Undefined]
    ELSE ctx

\* faulty variant of handleHeadingClose (sensitivity of C25): the terminator is emitted without a heading
handleHeadingCloseUnguarded(ctx) ==
    LET closed == IF /\ ctx.currentHeadingLevel # Undefined
                     /\ ctx.currentHeadingLevel # 0
                     /\ ctx.currentParagraphStart # Undefined
                  THEN [ctx EXCEPT !.paragraphRanges =
                            Append(@, [startIndex |-> ctx.currentParagraphStart,
                                       endIndex |-> ctx.currentIndex,
                                       namedStyleType |-> <<"HEADING", ctx.currentHeadingLevel>>])]
                  ELSE ctx
        inserted == insertText(<<NL>>, closed)
    IN [inserted EXCEPT !.currentHeadingLevel = Undefined,
                        !.currentParagraphStart = Undefined]

handleHeadingClose(ctx) ==
    IF /\ ctx.currentHeadingLevel # Undefined
       /\ ctx.currentHeadingLevel # 0
       /\ ctx.currentParagraphStart # Undefined
    THEN LET pushed == [ctx EXCEPT !.paragraphRanges =
                            Append(@, [startIndex |-> ctx.currentParagraphStart,
                                       endIndex |-> ctx.currentIndex,
                                       namedStyleType |-> <<"HEADING", ctx.currentHeadingLevel>>])]
             inserted == insertText(<<NL>>, pushed)
         IN [inserted EXCEPT !.currentHeadingLevel = Undefined,
                             !.currentParagraphStart = Undefined]
    ELSE ctx

\* faulty variant of handleHorizontalRule (sensitivity of C1): the border range ends one past the offset
handleHorizontalRuleOnePast(ctx) ==
    LET separated == IF ~lastInsertEndsWithNewline(ctx) THEN insertText(<<NL>>, ctx) ELSE ctx
        start == separated.currentIndex
        inserted == insertText(<<NL>>, separated)
    IN [inserted EXCEPT !.hrRanges =
            Append(@, [startIndex |-> start, endIndex |-> inserted.currentIndex + 1])]

\* faulty variant of handleHorizontalRule (sensitivity of C14): no separation from the previous content
handleHorizontalRuleUnseparated(ctx) ==
    LET start == ctx.currentIndex
        inserted == insertText(<<NL>>, ctx)
    IN [inserted EXCEPT !.hrRanges =
            Append(@, [startIndex |-> start, endIndex |-> inserted.currentIndex])]

handleHorizontalRule(ctx) ==
    LET separated == IF ~lastInsertEndsWithNewline(ctx) THEN insertText(<<NL>>, ctx) ELSE ctx
        start == separated.currentIndex
        inserted == insertText(<<NL>>, separated)
    IN [inserted EXCEPT !.hrRanges =
            Append(@, [startIndex |-> start, endIndex |-> inserted.currentIndex])]

handleParagraphOpen(ctx) ==
    IF Len(ctx.listStack) = 0
    THEN [ctx EXCEPT !.currentParagraphStart = ctx.currentIndex]
    ELSE ctx

\* faulty variant of handleParagraphClose (sensitivity of C27): the item is marked with the offset of its start
handleParagraphCloseAtStart(ctx) ==
    LET ended == IF Len(ctx.listStack) = 0 THEN insertText(<<NL, NL>>, ctx)
                 ELSE IF ~lastInsertEndsWithNewline(ctx) THEN insertText(<<NL>>, ctx)
                 ELSE ctx
        item == getCurrentOpenListItem(ended)
        marked == IF item # 0
                  THEN [ended EXCEPT !.pendingListItems[item].endIndex =
                                        ended.pendingListItems[item].startIndex]
                  ELSE ended
    IN [marked EXCEPT !.currentParagraphStart = Undefined]

\* faulty variant of handleParagraphClose (sensitivity of C17): one "\n" closes a paragraph outside a list
handleParagraphCloseSingleTerminator(ctx) ==
    LET ended == IF Len(ctx.listStack) = 0 THEN insertText(<<NL>>, ctx)
                 ELSE IF ~lastInsertEndsWithNewline(ctx) THEN insertText(<<NL>>, ctx)
                 ELSE ctx
        item == getCurrentOpenListItem(ended)
        paragraphEndIndex == IF lastInsertEndsWithNewline(ended)
                             THEN ended.currentIndex - 1
                             ELSE ended.currentIndex
        marked == IF item # 0 /\ paragraphEndIndex > ended.pendingListItems[item].startIndex
                  THEN [ended EXCEPT !.pendingListItems[item].endIndex = paragraphEndIndex]
                  ELSE ended
    IN [marked EXCEPT !.currentParagraphStart = Undefined]

\* faulty variant of handleParagraphClose (sensitivity of C10): the terminator is counted into the item
handleParagraphCloseWithTerminator(ctx) ==
    LET ended == IF Len(ctx.listStack) = 0 THEN insertText(<<NL, NL>>, ctx)
                 ELSE IF ~lastInsertEndsWithNewline(ctx) THEN insertText(<<NL>>, ctx)
                 ELSE ctx
        item == getCurrentOpenListItem(ended)
        paragraphEndIndex == ended.currentIndex
        marked == IF item # 0 /\ paragraphEndIndex > ended.pendingListItems[item].startIndex
                  THEN [ended EXCEPT !.pendingListItems[item].endIndex = paragraphEndIndex]
                  ELSE ended
    IN [marked EXCEPT !.currentParagraphStart = Undefined]

handleParagraphClose(ctx) ==
    LET ended == IF Len(ctx.listStack) = 0 THEN insertText(<<NL, NL>>, ctx)
                 ELSE IF ~lastInsertEndsWithNewline(ctx) THEN insertText(<<NL>>, ctx)
                 ELSE ctx
        item == getCurrentOpenListItem(ended)
        paragraphEndIndex == IF lastInsertEndsWithNewline(ended)
                             THEN ended.currentIndex - 1
                             ELSE ended.currentIndex
        marked == IF item # 0 /\ paragraphEndIndex > ended.pendingListItems[item].startIndex
                  THEN [ended EXCEPT !.pendingListItems[item].endIndex = paragraphEndIndex]
                  ELSE ended
    IN [marked EXCEPT !.currentParagraphStart = Undefined]

ListItemError == "List item found outside of list context"

\* faulty variant of openListItem (sensitivity of C11): the item starts after its tabs
openListItemAfterTabs(ctx) ==
    LET currentList == Last(ctx.listStack)
        indented == IF currentList.level > 0
                    THEN insertText(Repeat(TAB, currentList.level), ctx)
                    ELSE ctx
        listItem == [ startIndex |-> indented.currentIndex,
                      endIndex |-> Undefined,
                      nestingLevel |-> currentList.level,
                      bulletPreset |-> IF currentList.type = "ordered"
                                       THEN "NUMBERED_DECIMAL_ALPHA_ROMAN"
                                       ELSE "BULLET_DISC_CIRCLE_SQUARE",
                      taskPrefixProcessed |-> FALSE ]
    IN [indented EXCEPT
            !.pendingListItems = Append(@, listItem),
            !.openListItemStack = Append(@, Len(indented.pendingListItems) + 1)]

\* the items pushed by handleListItemOpen once the list stack is known to be non-empty
openListItem(ctx) ==
    LET currentList == Last(ctx.listStack)
        itemStart == ctx.currentIndex
        indented == IF currentList.level > 0
                    THEN insertText(Repeat(TAB, currentList.level), ctx)
                    ELSE ctx
        listItem == [ startIndex |-> itemStart,
                      endIndex |-> Undefined,
                      nestingLevel |-> currentList.level,
                      bulletPreset |-> IF currentList.type = "ordered"
                                       THEN "NUMBERED_DECIMAL_ALPHA_ROMAN"
                                       ELSE "BULLET_DISC_CIRCLE_SQUARE",
                      taskPrefixProcessed |-> FALSE ]
    IN [indented EXCEPT
            !.pendingListItems = Append(@, listItem),
            !.openListItemStack = Append(@, Len(indented.pendingListItems) + 1)]

\* a handler's outcome: the context it leaves, or the error it throws
Ok(ctx) == [error |-> NoError, context |-> ctx]
\* faulty variant of Throw (sensitivity of C6): the error is dropped and the walk goes on
ThrowSwallowed(msg, ctx) == [error |-> NoError, context |-> ctx]

Throw(msg, ctx) == [error |-> msg, context |-> ctx]

\* faulty variant of handleListItemOpen (sensitivity of C7): an item of a top-level list is refused too
handleListItemOpenNestedOnly(ctx) ==
    IF Len(ctx.listStack) <= 1
    THEN Throw(ListItemError, ctx)
    ELSE Ok(openListItem(ctx))

handleListItemOpen(ctx) ==
    IF Len(ctx.listStack) = 0
    THEN Throw(ListItemError, ctx)
    ELSE Ok(openListItem(ctx))

\* faulty variant of handleListItemClose (sensitivity of C28): the close assigns the endIndex every time
handleListItemCloseReassigns(ctx) ==
    IF Len(ctx.openListItemStack) = 0 THEN ctx
    ELSE LET openIndex == Last(ctx.openListItemStack)
             popped == [ctx EXCEPT !.openListItemStack = Front(@)]
             listItem == popped.pendingListItems[openIndex]
             computedEndIndex == IF lastInsertEndsWithNewline(popped)
                                 THEN popped.currentIndex - 1
                                 ELSE popped.currentIndex
             marked == IF computedEndIndex > listItem.startIndex
                       THEN [popped EXCEPT !.pendingListItems[openIndex].endIndex = computedEndIndex]
                       ELSE popped
         IN IF ~lastInsertEndsWithNewline(marked) THEN insertText(<<NL>>, marked) ELSE marked

\* faulty variant of handleListItemClose (sensitivity of C20): the close always emits its terminator
handleListItemCloseAlwaysTerminates(ctx) ==
    IF Len(ctx.openListItemStack) = 0 THEN ctx
    ELSE LET openIndex == Last(ctx.openListItemStack)
             popped == [ctx EXCEPT !.openListItemStack = Front(@)]
             listItem == popped.pendingListItems[openIndex]
             computedEndIndex == IF lastInsertEndsWithNewline(popped)
                                 THEN popped.currentIndex - 1
                                 ELSE popped.currentIndex
             marked == IF listItem.endIndex = Undefined /\ computedEndIndex > listItem.startIndex
                       THEN [popped EXCEPT !.pendingListItems[openIndex].endIndex = computedEndIndex]
                       ELSE popped
         IN insertText(<<NL>>, marked)

handleListItemClose(ctx) ==
    IF Len(ctx.openListItemStack) = 0 THEN ctx
    ELSE LET openIndex == Last(ctx.openListItemStack)
             popped == [ctx EXCEPT !.openListItemStack = Front(@)]
             listItem == popped.pendingListItems[openIndex]
             computedEndIndex == IF lastInsertEndsWithNewline(popped)
                                 THEN popped.currentIndex - 1
                                 ELSE popped.currentIndex
             marked == IF listItem.endIndex = Undefined /\ computedEndIndex > listItem.startIndex
                       THEN [popped EXCEPT !.pendingListItems[openIndex].endIndex = computedEndIndex]
                       ELSE popped
         IN IF ~lastInsertEndsWithNewline(marked) THEN insertText(<<NL>>, marked) ELSE marked

\* the tail of handleTextToken: insert the text and record its formatting
emitText(text, ctx) ==
    LET start == ctx.currentIndex
        endIndex == start + Len(text)
        inserted == insertText(text, ctx)
        currentFormatting == mergeFormattingStack(ctx.formattingStack)
    IN IF hasFormatting(currentFormatting)
       THEN [inserted EXCEPT !.textRanges =
                Append(@, [startIndex |-> start, endIndex |-> endIndex,
                           formatting |-> currentFormatting])]
       ELSE inserted

\* faulty variant of handleTextToken (sensitivity of C12): the item is never marked as checked
handleTextTokenEveryTime(tok, ctx) ==
    LET text == tok.content
        item == getCurrentOpenListItem(ctx)
    IN IF Len(text) = 0 THEN ctx
       ELSE IF item # 0 /\ ~ctx.pendingListItems[item].taskPrefixProcessed
       THEN LET matched == taskPrefixMatch(text)
            IN IF matched > 0
               THEN LET boxed == [ctx EXCEPT
                                     !.pendingListItems[item].bulletPreset = "BULLET_CHECKBOX"]
                        rest == SubSeq(text, matched + 1, Len(text))
                    IN IF Len(rest) = 0 THEN boxed ELSE emitText(rest, boxed)
               ELSE emitText(text, ctx)
       ELSE emitText(text, ctx)

handleTextToken(tok, ctx) ==
    LET text == tok.content
        item == getCurrentOpenListItem(ctx)
    IN IF Len(text) = 0 THEN ctx
       ELSE IF item # 0 /\ ~ctx.pendingListItems[item].taskPrefixProcessed
       THEN LET flagged == [ctx EXCEPT !.pendingListItems[item].taskPrefixProcessed = TRUE]
                matched == taskPrefixMatch(text)
            IN IF matched > 0
               THEN LET boxed == [flagged EXCEPT
                                     !.pendingListItems[item].bulletPreset = "BULLET_CHECKBOX"]
                        rest == SubSeq(text, matched + 1, Len(text))
                    IN IF Len(rest) = 0 THEN boxed ELSE emitText(rest, boxed)
               ELSE emitText(text, flagged)
       ELSE emitText(text, ctx)

\* faulty variant of handleCodeInlineToken (sensitivity of C26): the code entry is left on the stack
handleCodeInlineTokenUnpopped(tok, ctx) ==
    handleTextToken(tok, pushFormatting(ctx, Fragment("code", TRUE)))

handleCodeInlineToken(tok, ctx) ==
    popFormatting(handleTextToken(tok, pushFormatting(ctx, Fragment("code", TRUE))), "code")

\* faulty variant of emitCodeLine (sensitivity of C15): the span is taken after the terminator
emitCodeLineWithTerminator(line, ctx) ==
    LET start == ctx.currentIndex
        inserted == IF Len(line) > 0 THEN insertText(line, ctx) ELSE insertText(<<SP>>, ctx)
        ended == insertText(<<NL>>, inserted)
    IN [ended EXCEPT !.textRanges =
            Append(@, [startIndex |-> start, endIndex |-> ended.currentIndex,
                       formatting |-> Fragment("code", TRUE)])]

\* one iteration of the loop over the lines of a code block
emitCodeLine(line, ctx) ==
    LET start == ctx.currentIndex
        inserted == IF Len(line) > 0 THEN insertText(line, ctx) ELSE insertText(<<SP>>, ctx)
        ranged == [inserted EXCEPT !.textRanges =
                      Append(@, [startIndex |-> start, endIndex |-> inserted.currentIndex,
                                 formatting |-> Fragment("code", TRUE)])]
    IN insertText(<<NL>>, ranged)

RECURSIVE emitCodeLines(_, _, _)
emitCodeLines(lines, i, ctx) ==
    IF i > Len(lines) THEN ctx
    ELSE emitCodeLines(lines, i + 1, emitCodeLine(lines[i], ctx))

handleCodeBlockToken(tok, ctx) ==
    LET normalizedContent == IF EndsWithNewline(tok.content) THEN Front(tok.content)
                             ELSE tok.content
        lines == IF Len(normalizedContent) > 0 THEN Split(normalizedContent) ELSE <<<<>>>>
        emitted == emitCodeLines(lines, 1, ctx)
    IN IF ~lastInsertEndsWithDoubleNewline(emitted) THEN insertText(<<NL>>, emitted)
       ELSE emitted

pushList(ctx, type) ==
    [ctx EXCEPT !.listStack = Append(@, [type |-> type, level |-> Len(ctx.listStack)])]

popList(ctx) ==
    IF Len(ctx.listStack) = 0 THEN ctx ELSE [ctx EXCEPT !.listStack = Front(@)]

handleLinkOpen(tok, ctx) ==
    LET href == getLinkHref(tok)
    IN IF href # Null /\ href # "" THEN pushFormatting(ctx, Fragment("link", href)) ELSE ctx

(***************************************************************************)
(* processToken: the dispatch on token.type.  The table structure tokens   *)
(* (tbody_open ... table_close) carry no statement of their own and fall   *)
(* through to the fence / code_block case.                                 *)
(***************************************************************************)
TableStructureTypes ==
    { "tbody_open", "tbody_close", "thead_open", "thead_close", "tr_open", "tr_close",
      "th_open", "th_close", "td_open", "td_close", "table_close" }

RECURSIVE processToken(_, _), processChildren(_, _, _)

processChildren(children, i, ctx) ==
    IF i > Len(children) THEN Ok(ctx)
    ELSE LET r == processToken(children[i], ctx)
         IN IF r.error # NoError THEN r ELSE processChildren(children, i + 1, r.context)

processToken(tok, ctx) ==
    CASE tok.type = "heading_open" -> Ok(handleHeadingOpen(tok, ctx))
      [] tok.type = "heading_close" -> Ok(handleHeadingClose(ctx))
      [] tok.type = "paragraph_open" -> Ok(handleParagraphOpen(ctx))
      [] tok.type = "paragraph_close" -> Ok(handleParagraphClose(ctx))
      [] tok.type = "text" -> Ok(handleTextToken(tok, ctx))
      [] tok.type = "code_inline" -> Ok(handleCodeInlineToken(tok, ctx))
      [] tok.type = "strong_open" -> Ok(pushFormatting(ctx, Fragment("bold", TRUE)))
      [] tok.type = "strong_close" -> Ok(popFormatting(ctx, "bold"))
      [] tok.type = "em_open" -> Ok(pushFormatting(ctx, Fragment("italic", TRUE)))
      [] tok.type = "em_close" -> Ok(popFormatting(ctx, "italic"))
      [] tok.type = "s_open" -> Ok(pushFormatting(ctx, Fragment("strikethrough", TRUE)))
      [] tok.type = "s_close" -> Ok(popFormatting(ctx, "strikethrough"))
      [] tok.type = "link_open" -> Ok(handleLinkOpen(tok, ctx))
      [] tok.type = "link_close" -> Ok(popFormatting(ctx, "link"))
      [] tok.type = "bullet_list_open" -> Ok(pushList(ctx, "bullet"))
      [] tok.type = "bullet_list_close" -> Ok(popList(ctx))
      [] tok.type = "ordered_list_open" -> Ok(pushList(ctx, "ordered"))
      [] tok.type = "ordered_list_close" -> Ok(popList(ctx))
      [] tok.type = "list_item_open" -> handleListItemOpen(ctx)
      [] tok.type = "list_item_close" -> Ok(handleListItemClose(ctx))
      [] tok.type = "softbreak" -> Ok(insertText(<<SP>>, ctx))
      [] tok.type = "hardbreak" -> Ok(insertText(<<NL>>, ctx))
      [] tok.type = "inline" -> processChildren(tok.children, 1, ctx)
      [] tok.type = "table_open" -> Ok(ctx)
      [] tok.type \in TableStructureTypes \cup {"fence", "code_block"} ->
            Ok(handleCodeBlockToken(tok, ctx))
      [] tok.type = "hr" -> Ok(handleHorizontalRule(ctx))
      [] tok.type \in {"blockquote_open", "blockquote_close"} -> Ok(ctx)
      [] OTHER -> Ok(ctx)

(***************************************************************************)
(* Request builders of googleDocsApiHelpers.ts.  A style is a function     *)
(* from the argument names that are not undefined to their values.         *)
(***************************************************************************)
CODE_FONT_FAMILY == "Roboto Mono"
CODE_TEXT_HEX == "#188038"
CODE_BACKGROUND_HEX == "#F1F3F4"

\* hexToRgbColor of types.ts: the colour of a well-formed hex string, null otherwise
hexToRgbColor(hex) ==
    IF hex \in {CODE_TEXT_HEX, CODE_BACKGROUND_HEX} THEN [rgbOfHex |-> hex] ELSE Null

TextStyleArgOrder ==
    << "bold", "italic", "underline", "strikethrough", "fontSize", "fontFamily",
       "foregroundColor", "backgroundColor", "linkUrl" >>

\* the textStyle field an argument sets
TextStyleField(arg) ==
    CASE arg = "fontFamily" -> "weightedFontFamily"
      [] arg = "linkUrl" -> "link"
      [] OTHER -> arg

TextStyleValue(arg, value) ==
    CASE arg = "fontSize" -> [magnitude |-> value, unit |-> "PT"]
      [] arg = "fontFamily" -> [fontFamily |-> value]
      [] arg \in {"foregroundColor", "backgroundColor"} ->
            [color |-> [rgbColor |-> hexToRgbColor(value)]]
      [] arg = "linkUrl" -> [url |-> value]
      [] OTHER -> value

RECURSIVE fieldsToUpdate(_, _)
fieldsToUpdate(style, i) ==
    IF i > Len(TextStyleArgOrder) THEN <<>>
    ELSE (IF TextStyleArgOrder[i] \in DOMAIN style
          THEN <<TextStyleField(TextStyleArgOrder[i])>> ELSE <<>>)
         \o fieldsToUpdate(style, i + 1)

\* <<request>>, or <<>> (null) when no style field is given
buildUpdateTextStyleRequest(s, e, style, tabId) ==
    IF DOMAIN style \cap {TextStyleArgOrder[i] : i \in 1..Len(TextStyleArgOrder)} = {}
    THEN <<>>
    ELSE << [updateTextStyle |->
            [ range |-> Range(s, e, tabId),
              textStyle |-> [f \in {TextStyleField(a) : a \in DOMAIN style} |->
                                LET a == CHOOSE x \in DOMAIN style : TextStyleField(x) = f
                                IN TextStyleValue(a, style[a])],
              fields |-> fieldsToUpdate(style, 1) ]] >>

\* <<request>> or <<>> (null); the converter calls it with namedStyleType only
buildUpdateParagraphStyleRequest(s, e, style, tabId) ==
    IF "namedStyleType" \notin DOMAIN style
    THEN <<>>
    ELSE << [updateParagraphStyle |->
            [ range |-> Range(s, e, tabId),
              paragraphStyle |-> [namedStyleType |-> style["namedStyleType"]],
              fields |-> <<"namedStyleType">> ]] >>

(***************************************************************************)
(* finalizeFormatting.                                                     *)
(***************************************************************************)
IsSet(formatting, key) == key \in DOMAIN formatting /\ formatting[key] = TRUE

\* the style argument of the first buildUpdateTextStyleRequest call of a range
characterStyleArgs(formatting) ==
    LET plain == {k \in {"bold", "italic", "strikethrough"} : k \in DOMAIN formatting}
        code == IF IsSet(formatting, "code")
                THEN {"fontFamily", "foregroundColor", "backgroundColor"} ELSE {}
    IN [a \in plain \cup code |->
            CASE a = "fontFamily" -> CODE_FONT_FAMILY
              [] a = "foregroundColor" -> CODE_TEXT_HEX
              [] a = "backgroundColor" -> CODE_BACKGROUND_HEX
              [] OTHER -> formatting[a]]

\* faulty variant of textRangeRequests (sensitivity of C16): the link travels in the style operation
textRangeRequestsLinkMerged(range, tabId) ==
    LET link == IF "link" \in DOMAIN range.formatting
                THEN [a \in {"linkUrl"} |-> range.formatting["link"]] ELSE EmptyFormatting
    IN buildUpdateTextStyleRequest(
           range.startIndex, range.endIndex,
           Override(characterStyleArgs(range.formatting), link), tabId)

\* the requests the character-level loop pushes for one text range
textRangeRequests(range, tabId) ==
    (IF \/ IsSet(range.formatting, "bold")
        \/ IsSet(range.formatting, "italic")
        \/ IsSet(range.formatting, "strikethrough")
        \/ IsSet(range.formatting, "code")
     THEN buildUpdateTextStyleRequest(
              range.startIndex, range.endIndex, characterStyleArgs(range.formatting), tabId)
     ELSE <<>>)
    \o
    (IF "link" \in DOMAIN range.formatting /\ range.formatting["link"] # ""
     THEN buildUpdateTextStyleRequest(
              range.startIndex, range.endIndex,
              [a \in {"linkUrl"} |-> range.formatting["link"]], tabId)
     ELSE <<>>)

paragraphRangeRequests(paraRange, tabId) ==
    buildUpdateParagraphStyleRequest(
        paraRange.startIndex, paraRange.endIndex,
        [a \in {"namedStyleType"} |-> paraRange.namedStyleType], tabId)

hrRangeRequest(hrRange, tabId) ==
    [updateParagraphStyle |->
        [ range |-> Range(hrRange.startIndex, hrRange.endIndex, tabId),
          paragraphStyle |->
              [borderBottom |-> [ color |-> "rgb(0.75, 0.75, 0.75)",
                                   width |-> [magnitude |-> 1, unit |-> "PT"],
                                   padding |-> [magnitude |-> 6, unit |-> "PT"],
                                   dashStyle |-> "SOLID" ]],
          fields |-> <<"borderBottom">> ]]

bulletRequest(listItem, tabId) ==
    [createParagraphBullets |->
        [ range |-> Range(listItem.startIndex, listItem.endIndex, tabId),
          bulletPreset |-> listItem.bulletPreset ]]

\* faulty variant of hasRange (sensitivity of C9): the filter keeps every pending item
hasRangeUnfiltered(listItem) == TRUE

hasRange(listItem) ==
    listItem.endIndex # Undefined /\ listItem.endIndex > listItem.startIndex

RECURSIVE Filter(_, _)
Filter(items, i) ==
    IF i > Len(items) THEN <<>>
    ELSE (IF hasRange(items[i]) THEN <<items[i]>> ELSE <<>>) \o Filter(items, i + 1)

\* Array.prototype.sort with (a, b) => b.startIndex - a.startIndex: stable, descending
InsertDescending(sorted, item) ==
    LET after == {i \in 1..Len(sorted) : sorted[i].startIndex >= item.startIndex}
        n == Cardinality(after)
    IN SubSeq(sorted, 1, n) \o <<item>> \o SubSeq(sorted, n + 1, Len(sorted))

RECURSIVE SortDescending(_, _, _)
SortDescending(items, i, sorted) ==
    IF i > Len(items) THEN sorted
    ELSE SortDescending(items, i + 1, InsertDescending(sorted, items[i]))

listItemsForFormatting(ctx) == SortDescending(Filter(ctx.pendingListItems, 1), 1, <<>>)

RECURSIVE FlatMapText(_, _, _), FlatMapParagraph(_, _, _)
FlatMapText(ranges, i, tabId) ==
    IF i > Len(ranges) THEN <<>>
    ELSE textRangeRequests(ranges[i], tabId) \o FlatMapText(ranges, i + 1, tabId)

FlatMapParagraph(ranges, i, tabId) ==
    IF i > Len(ranges) THEN <<>>
    ELSE paragraphRangeRequests(ranges[i], tabId) \o FlatMapParagraph(ranges, i + 1, tabId)

\* faulty variant of finalizeFormatting (sensitivity of C3): the bullet assignments are pushed first
finalizeBulletsFirst(ctx) ==
    LET items == listItemsForFormatting(ctx)
    IN [ctx EXCEPT !.formatRequests =
            @ \o [i \in 1..Len(items) |-> bulletRequest(items[i], ctx.tabId)]
              \o FlatMapText(ctx.textRanges, 1, ctx.tabId)
              \o FlatMapParagraph(ctx.paragraphRanges, 1, ctx.tabId)
              \o [i \in 1..Len(ctx.hrRanges) |-> hrRangeRequest(ctx.hrRanges[i], ctx.tabId)]]

finalizeFormatting(ctx) ==
    LET items == listItemsForFormatting(ctx)
    IN [ctx EXCEPT !.formatRequests =
            @ \o FlatMapText(ctx.textRanges, 1, ctx.tabId)
              \o FlatMapParagraph(ctx.paragraphRanges, 1, ctx.tabId)
              \o [i \in 1..Len(ctx.hrRanges) |-> hrRangeRequest(ctx.hrRanges[i], ctx.tabId)]
              \o [i \in 1..Len(items) |-> bulletRequest(items[i], ctx.tabId)]]

(***************************************************************************)
(* convertMarkdownToRequests.                                              *)
(***************************************************************************)
convVarsButOther == <<pc, startIndex, context, ntokens, tokens, open, nblocks, result, error, raised>>

\* an Error object as the catch block sees it: its class and its message
MarkdownConversionError(message) ==
    [class |-> "MarkdownConversionError", isError |-> TRUE, message |-> message]
NoRaised == [class |-> "", isError |-> FALSE, message |-> NoError]
NoCall == [pc |-> "none"]
NoCalls == [calls |-> <<>>, inFlight |-> 0]
NoSplit == [pc |-> "idle", requests |-> <<>>, i |-> 0, awaiting |-> FALSE]
NoTool == [pc |-> "none", endIndex |-> 0]

\* the catch block: a MarkdownConversionError is rethrown as it is, anything
\* else is wrapped in a new MarkdownConversionError
catchBlock(thrown) ==
    IF thrown.class = "MarkdownConversionError"
    THEN thrown
    ELSE MarkdownConversionError("Failed to convert markdown: "
                                 \o (IF thrown.isError THEN thrown.message ELSE "Unknown error"))

StartIndices == {1, 2}
TabIds == {NoTab, "", "tab-abc"}

Init ==
    /\ pc = "start"
    /\ startIndex \in StartIndices
    /\ context = NewContext(startIndex, NoTab)
    /\ ntokens = 0
    /\ tokens = <<>>
    /\ open = <<>>
    /\ nblocks = 0
    /\ result = NoResult
    /\ error = NoError
    /\ raised = NoRaised
    /\ other = NoCall
    /\ docs = NoCalls
    /\ split = NoSplit
    /\ tool = NoTool

\* !markdown || markdown.trim().length === 0
ReturnEmpty ==
    /\ pc = "start"
    /\ pc' = "returned"
    /\ result' = <<>>
    /\ UNCHANGED <<startIndex, context, ntokens, tokens, open, nblocks, error, raised, other, docs, split, tool>>

\* a non-blank markdown is parsed and the loop over parsed.tokens begins
Parse ==
    /\ pc = "start"
    /\ pc' = "walking"
    /\ UNCHANGED <<startIndex, context, ntokens, tokens, open, nblocks, result, error, raised, other, docs, split, tool>>

\* one iteration of the loop: processToken(token, context), and its throw
Walk(tok) ==
    /\ pc = "walking"
    /\ LET r == processToken(tok, context)
       IN /\ context' = r.context
          /\ IF r.error # NoError
             THEN /\ pc' = "raised"
                  /\ error' = r.error
                  /\ raised' = catchBlock(MarkdownConversionError(r.error))
             ELSE pc' = pc /\ error' = error /\ raised' = raised
    /\ ntokens' = ntokens + 1
    /\ UNCHANGED <<startIndex, result, other, docs, split, tool>>

\* the loop is over: finalizeFormatting and the return
Return ==
    /\ pc = "walking"
    /\ open = <<>>
    /\ LET finalized == finalizeFormatting(context)
       IN /\ context' = finalized
          /\ result' = finalized.insertRequests \o finalized.formatRequests
    /\ pc' = "returned"
    /\ UNCHANGED <<startIndex, ntokens, tokens, open, nblocks, error, raised, other, docs, split, tool>>

(***************************************************************************)
(* Arbitrary token sequences of at most MaxTokens tokens: every token type *)
(* of processToken's switch, in any order.                                 *)
(***************************************************************************)
More == ntokens < MaxTokens

HeadingTags == {"h1", ""}
TextContents == {<<"a">>, <<"[", "x", "]", " ", "a">>, <<>>}
CodeContents == {<<"c">>}
BlockContents == {<<"c", NL>>, <<"c", NL, NL, "d">>, <<>>}
LinkAttrs == {<<>>, <<<<"href", "u1">>>>}
InlineChildren ==
    { <<>>,
      <<Tok("strong_open"), TokContent("text", <<"a">>), Tok("strong_close")>>,
      <<TokContent("text", <<"a">>), Tok("list_item_open")>> }

HeadingOpen == More /\ \E tag \in HeadingTags : Walk(TokTag("heading_open", tag)) /\ UNCHANGED <<tokens, open, nblocks>>
HeadingClose == More /\ Walk(Tok("heading_close")) /\ UNCHANGED <<tokens, open, nblocks>>
ParagraphOpen == More /\ Walk(Tok("paragraph_open")) /\ UNCHANGED <<tokens, open, nblocks>>
ParagraphClose == More /\ Walk(Tok("paragraph_close")) /\ UNCHANGED <<tokens, open, nblocks>>
Text == More /\ \E content \in TextContents : Walk(TokContent("text", content)) /\ UNCHANGED <<tokens, open, nblocks>>
CodeInline ==
    More /\ \E content \in CodeContents : Walk(TokContent("code_inline", content)) /\ UNCHANGED <<tokens, open, nblocks>>
StrongOpen == More /\ Walk(Tok("strong_open")) /\ UNCHANGED <<tokens, open, nblocks>>
StrongClose == More /\ Walk(Tok("strong_close")) /\ UNCHANGED <<tokens, open, nblocks>>
EmOpen == More /\ Walk(Tok("em_open")) /\ UNCHANGED <<tokens, open, nblocks>>
EmClose == More /\ Walk(Tok("em_close")) /\ UNCHANGED <<tokens, open, nblocks>>
SOpen == More /\ Walk(Tok("s_open")) /\ UNCHANGED <<tokens, open, nblocks>>
SClose == More /\ Walk(Tok("s_close")) /\ UNCHANGED <<tokens, open, nblocks>>
LinkOpen == More /\ \E attrs \in LinkAttrs : Walk(TokAttrs("link_open", attrs)) /\ UNCHANGED <<tokens, open, nblocks>>
LinkClose == More /\ Walk(Tok("link_close")) /\ UNCHANGED <<tokens, open, nblocks>>
BulletListOpen == More /\ Walk(Tok("bullet_list_open")) /\ UNCHANGED <<tokens, open, nblocks>>
BulletListClose == More /\ Walk(Tok("bullet_list_close")) /\ UNCHANGED <<tokens, open, nblocks>>
OrderedListOpen == More /\ Walk(Tok("ordered_list_open")) /\ UNCHANGED <<tokens, open, nblocks>>
OrderedListClose == More /\ Walk(Tok("ordered_list_close")) /\ UNCHANGED <<tokens, open, nblocks>>
ListItemOpen == More /\ Walk(Tok("list_item_open")) /\ UNCHANGED <<tokens, open, nblocks>>
ListItemClose == More /\ Walk(Tok("list_item_close")) /\ UNCHANGED <<tokens, open, nblocks>>
Softbreak == More /\ Walk(Tok("softbreak")) /\ UNCHANGED <<tokens, open, nblocks>>
Hardbreak == More /\ Walk(Tok("hardbreak")) /\ UNCHANGED <<tokens, open, nblocks>>
Inline == More /\ \E children \in InlineChildren : Walk(TokChildren("inline", children)) /\ UNCHANGED <<tokens, open, nblocks>>
TableOpen == More /\ Walk(Tok("table_open")) /\ UNCHANGED <<tokens, open, nblocks>>
TableStructure == More /\ \E type \in TableStructureTypes : Walk(Tok(type)) /\ UNCHANGED <<tokens, open, nblocks>>
CodeBlock ==
    /\ More
    /\ \E type \in {"fence", "code_block"} :
         \E content \in BlockContents : Walk(TokContent(type, content))
    /\ UNCHANGED <<tokens, open, nblocks>>
HorizontalRule == More /\ Walk(Tok("hr")) /\ UNCHANGED <<tokens, open, nblocks>>
Blockquote ==
    More /\ \E type \in {"blockquote_open", "blockquote_close"} : Walk(Tok(type)) /\ UNCHANGED <<tokens, open, nblocks>>
Unhandled == More /\ \E type \in {"html_block", "image"} : Walk(Tok(type)) /\ UNCHANGED <<tokens, open, nblocks>>

Next ==
    \/ ReturnEmpty \/ Parse \/ Return
    \/ HeadingOpen \/ HeadingClose \/ ParagraphOpen \/ ParagraphClose
    \/ Text \/ CodeInline
    \/ StrongOpen \/ StrongClose \/ EmOpen \/ EmClose \/ SOpen \/ SClose
    \/ LinkOpen \/ LinkClose
    \/ BulletListOpen \/ BulletListClose \/ OrderedListOpen \/ OrderedListClose
    \/ ListItemOpen \/ ListItemClose
    \/ Softbreak \/ Hardbreak \/ Inline
    \/ TableOpen \/ TableStructure \/ CodeBlock \/ HorizontalRule \/ Blockquote \/ Unhandled

Spec == Init /\ [][Next]_vars

(***************************************************************************)
(* Well-formed documents: the token streams markdown-it's parse produces   *)
(* for headings, paragraphs, (nested) bullet and ordered lists, rules and  *)
(* fenced code.  open is the stack of containers the tokenizer has opened  *)
(* and not yet closed; every container is closed before the stream ends.   *)
(***************************************************************************)
DocHeadingTags == {"h2"}
DocStartIndices == {1}
DocInlineChildren ==
    { <<TokContent("text", <<"a">>)>>,
      <<TokContent("text", <<"[", "x", "]", " ">>),
        Tok("strong_open"), TokContent("text", <<"b">>), Tok("strong_close")>> }
DocItemInlineChildren ==
    DocInlineChildren \cup
    { <<TokContent("text", <<"[", "x", "]", " ", "a">>)>>,
      <<TokContent("text", <<"[", " ", "]", " ">>), Tok("image")>> }
DocHeadingChildren == {<<TokContent("text", <<"a">>)>>}
DocBlockContents == {<<"c", NL>>}

Top == IF Len(open) = 0 THEN "document" ELSE Last(open)
AtBlockLevel == pc = "walking" /\ Top \in {"document", "list_item"}
MayOpenBlock == AtBlockLevel /\ nblocks < MaxBlocks

\* one iteration of the loop, with the token recorded
Consume(tok) == Walk(tok) /\ tokens' = Append(tokens, tok)

DocInit ==
    /\ pc = "start"
    /\ startIndex \in DocStartIndices
    /\ context = NewContext(startIndex, NoTab)
    /\ ntokens = 0
    /\ tokens = <<>>
    /\ open = <<>>
    /\ nblocks = 0
    /\ result = NoResult
    /\ error = NoError
    /\ raised = NoRaised
    /\ other = NoCall
    /\ docs = NoCalls
    /\ split = NoSplit
    /\ tool = NoTool

DocHeadingOpen ==
    /\ MayOpenBlock
    /\ \E tag \in DocHeadingTags : Consume(TokTag("heading_open", tag))
    /\ open' = Append(open, "heading")
    /\ nblocks' = nblocks + 1

DocParagraphOpen ==
    /\ MayOpenBlock
    /\ Consume(Tok("paragraph_open"))
    /\ open' = Append(open, "paragraph")
    /\ nblocks' = nblocks + 1

DocInline ==
    /\ pc = "walking"
    /\ Top \in {"heading", "paragraph"}
    /\ \E children \in (IF Top = "heading" THEN DocHeadingChildren
                        ELSE IF Len(context.listStack) > 0 THEN DocItemInlineChildren
                        ELSE DocInlineChildren) :
         Consume(TokChildren("inline", children))
    /\ open' = [open EXCEPT ![Len(open)] = IF Top = "heading" THEN "heading_end"
                                           ELSE "paragraph_end"]
    /\ UNCHANGED nblocks

DocHeadingClose ==
    /\ pc = "walking"
    /\ Top = "heading_end"
    /\ Consume(Tok("heading_close"))
    /\ open' = Front(open)
    /\ UNCHANGED nblocks

DocParagraphClose ==
    /\ pc = "walking"
    /\ Top = "paragraph_end"
    /\ Consume(Tok("paragraph_close"))
    /\ open' = Front(open)
    /\ UNCHANGED nblocks

DocBulletListOpen ==
    /\ AtBlockLevel
    /\ nblocks < MaxBlocks
    /\ Consume(Tok("bullet_list_open"))
    /\ open' = Append(open, "list")
    /\ UNCHANGED nblocks

DocOrderedListOpen ==
    /\ AtBlockLevel
    /\ nblocks < MaxBlocks
    /\ Consume(Tok("ordered_list_open"))
    /\ open' = Append(open, "list")
    /\ UNCHANGED nblocks

DocListItemOpen ==
    /\ pc = "walking"
    /\ Top \in {"list", "list_items"}
    /\ nblocks < MaxBlocks
    /\ Consume(Tok("list_item_open"))
    /\ open' = Append([open EXCEPT ![Len(open)] = "list_items"], "list_item")
    /\ nblocks' = nblocks + 1

DocListItemClose ==
    /\ pc = "walking"
    /\ Top = "list_item"
    /\ Consume(Tok("list_item_close"))
    /\ open' = Front(open)
    /\ UNCHANGED nblocks

\* a list holds at least one item; its close token has the type of its open token
DocListClose ==
    /\ pc = "walking"
    /\ Top = "list_items"
    /\ Consume(Tok(IF Last(context.listStack).type = "ordered"
                THEN "ordered_list_close" ELSE "bullet_list_close"))
    /\ open' = Front(open)
    /\ UNCHANGED nblocks

DocHorizontalRule ==
    /\ MayOpenBlock
    /\ Consume(Tok("hr"))
    /\ nblocks' = nblocks + 1
    /\ UNCHANGED open

DocCodeBlock ==
    /\ MayOpenBlock
    /\ \E content \in DocBlockContents : Consume(TokContent("fence", content))
    /\ nblocks' = nblocks + 1
    /\ UNCHANGED open

DocNext ==
    \/ ReturnEmpty \/ Parse \/ Return
    \/ DocHeadingOpen \/ DocHeadingClose \/ DocParagraphOpen \/ DocParagraphClose \/ DocInline
    \/ DocBulletListOpen \/ DocOrderedListOpen \/ DocListClose
    \/ DocListItemOpen \/ DocListItemClose
    \/ DocHorizontalRule \/ DocCodeBlock

SpecDoc == DocInit /\ [][DocNext]_vars

(***************************************************************************)
(* Inline runs: arbitrary sequences of at most MaxInline inline tokens     *)
(* (the children of one inline token), balanced or not.                    *)
(***************************************************************************)
InlineLinkAttrs == {<<>>, <<<<"href", "u1">>>>, <<<<"href", "u2">>>>}

InlineInit ==
    /\ pc = "start"
    /\ startIndex = 1
    /\ context = NewContext(startIndex, NoTab)
    /\ ntokens = 0
    /\ tokens = <<>>
    /\ open = <<>>
    /\ nblocks = 0
    /\ result = NoResult
    /\ error = NoError
    /\ raised = NoRaised
    /\ other = NoCall
    /\ docs = NoCalls
    /\ split = NoSplit
    /\ tool = NoTool

Child(tok) == Len(tokens) < MaxInline /\ Consume(tok) /\ UNCHANGED <<open, nblocks>>

ChildText == Child(TokContent("text", <<"a">>))
ChildCodeInline == Child(TokContent("code_inline", <<"c">>))
ChildStrongOpen == Child(Tok("strong_open"))
ChildStrongClose == Child(Tok("strong_close"))
ChildEmOpen == Child(Tok("em_open"))
ChildEmClose == Child(Tok("em_close"))
ChildSOpen == Child(Tok("s_open"))
ChildSClose == Child(Tok("s_close"))
ChildLinkOpen == \E attrs \in InlineLinkAttrs : Child(TokAttrs("link_open", attrs))
ChildLinkClose == Child(Tok("link_close"))

InlineNext ==
    \/ ReturnEmpty \/ Parse \/ Return
    \/ ChildText \/ ChildCodeInline
    \/ ChildStrongOpen \/ ChildStrongClose \/ ChildEmOpen \/ ChildEmClose
    \/ ChildSOpen \/ ChildSClose \/ ChildLinkOpen \/ ChildLinkClose

SpecInline == InlineInit /\ [][InlineNext]_vars

(***************************************************************************)
(* List items: one single-level list whose items hold runs of literal      *)
(* tokens (text, inline code, soft breaks), at most MaxItemTokens tokens   *)
(* after the list is opened.                                               *)
(***************************************************************************)
MaxItemTokens == 4

ItemTextContents ==
    { <<"a">>, <<"[", "x", "]", " ", "a">>, <<"[", " ", "]", " ">>,
      <<"[", "X", "]", TAB, SP, "b">>, <<"[", "x", "]", "a">>, <<>> }
ItemCodeContents == {<<"[", "x", "]", " ", "c">>}

ItemMore == pc = "walking" /\ Len(tokens) >= 1 /\ Len(tokens) < MaxItemTokens + 1

ItemListOpen ==
    /\ pc = "walking"
    /\ tokens = <<>>
    /\ \E type \in {"bullet_list_open", "ordered_list_open"} : Consume(Tok(type))
    /\ UNCHANGED <<open, nblocks>>

ItemOpen ==
    /\ ItemMore
    /\ Len(context.openListItemStack) = 0
    /\ Consume(Tok("list_item_open"))
    /\ UNCHANGED <<open, nblocks>>

ItemText ==
    /\ ItemMore
    /\ Len(context.openListItemStack) > 0
    /\ \E content \in ItemTextContents : Consume(TokContent("text", content))
    /\ UNCHANGED <<open, nblocks>>

ItemCodeInline ==
    /\ ItemMore
    /\ Len(context.openListItemStack) > 0
    /\ \E content \in ItemCodeContents : Consume(TokContent("code_inline", content))
    /\ UNCHANGED <<open, nblocks>>

ItemSoftbreak ==
    /\ ItemMore
    /\ Len(context.openListItemStack) > 0
    /\ Consume(Tok("softbreak"))
    /\ UNCHANGED <<open, nblocks>>

ItemClose ==
    /\ ItemMore
    /\ Len(context.openListItemStack) > 0
    /\ Consume(Tok("list_item_close"))
    /\ UNCHANGED <<open, nblocks>>

ItemNext ==
    \/ ReturnEmpty \/ Parse \/ Return
    \/ ItemListOpen \/ ItemOpen \/ ItemText \/ ItemCodeInline \/ ItemSoftbreak \/ ItemClose

SpecItem == InlineInit /\ [][ItemNext]_vars

(***************************************************************************)
(* The inputs of the test suite (tests/markdown.test.js), each with the    *)
(* token streams markdown-it gives for it.  A strong pair may or may not   *)
(* leave empty text tokens where its outer delimiters stood.               *)
(***************************************************************************)
Markdowns ==
    { "**bold text**", "# Heading 1", "---", "Above\n\n---\n\nBelow", "- [x] done\n- [ ] todo",
      "1. Item 1", "~~~\nx\n~~~", "[link text](https://example.com)", "Just plain text" }

\* parsed.tokens of parseMarkdown(markdown): the streams md.parse may return
parseMarkdown(markdown) ==
    CASE markdown = "**bold text**" ->
            { <<Tok("paragraph_open"), TokChildren("inline", <<Tok("strong_open"), TokContent("text", <<"b", "o", "l", "d", SP, "t", "e", "x", "t">>), Tok("strong_close")>>), Tok("paragraph_close")>>,
              <<Tok("paragraph_open"), TokChildren("inline", <<TokContent("text", <<>>), Tok("strong_open"), TokContent("text", <<"b", "o", "l", "d", SP, "t", "e", "x", "t">>), Tok("strong_close"), TokContent("text", <<>>)>>), Tok("paragraph_close")>> }
      [] markdown = "# Heading 1" ->
            { <<TokTag("heading_open", "h1"), TokChildren("inline", <<TokContent("text", <<"H", "e", "a", "d", "i", "n", "g", SP, "1">>)>>),
                TokTag("heading_close", "h1")>> }
      [] markdown = "---" -> { <<Tok("hr")>> }
      [] markdown = "Above\n\n---\n\nBelow" ->
            { <<Tok("paragraph_open"), TokChildren("inline", <<TokContent("text", <<"A", "b", "o", "v", "e">>)>>), Tok("paragraph_close"),
                Tok("hr"),
                Tok("paragraph_open"), TokChildren("inline", <<TokContent("text", <<"B", "e", "l", "o", "w">>)>>), Tok("paragraph_close")>> }
      [] markdown = "- [x] done\n- [ ] todo" ->
            { <<Tok("bullet_list_open"),
                Tok("list_item_open"), Tok("paragraph_open"), TokChildren("inline", <<TokContent("text", <<"[", "x", "]", SP, "d", "o", "n", "e">>)>>), Tok("paragraph_close"), Tok("list_item_close"),
                Tok("list_item_open"), Tok("paragraph_open"), TokChildren("inline", <<TokContent("text", <<"[", SP, "]", SP, "t", "o", "d", "o">>)>>), Tok("paragraph_close"), Tok("list_item_close"),
                Tok("bullet_list_close")>> }
      [] markdown = "1. Item 1" ->
            { <<Tok("ordered_list_open"),
                Tok("list_item_open"), Tok("paragraph_open"), TokChildren("inline", <<TokContent("text", <<"I", "t", "e", "m", SP, "1">>)>>), Tok("paragraph_close"), Tok("list_item_close"),
                Tok("ordered_list_close")>> }
      [] markdown = "~~~\nx\n~~~" -> { <<TokContent("fence", <<"x", NL>>)>> }
      [] markdown = "[link text](https://example.com)" ->
            { <<Tok("paragraph_open"),
                TokChildren("inline", <<TokAttrs("link_open", <<<<"href", "https://example.com">>>>),
                                        TokContent("text", <<"l", "i", "n", "k", SP, "t", "e", "x", "t">>), Tok("link_close")>>),
                Tok("paragraph_close")>> }
      [] markdown = "Just plain text" -> { <<Tok("paragraph_open"), TokChildren("inline", <<TokContent("text", <<"J", "u", "s", "t", SP, "p", "l", "a", "i", "n", SP, "t", "e", "x", "t">>)>>), Tok("paragraph_close")>> }

\* one iteration of the loop over the tokens of one of the inputs
SuiteWalk ==
    \E markdown \in Markdowns : \E stream \in parseMarkdown(markdown) :
        /\ Len(tokens) < Len(stream)
        /\ SubSeq(stream, 1, Len(tokens)) = tokens
        /\ Consume(stream[Len(tokens) + 1])
        /\ UNCHANGED <<open, nblocks>>

\* the loop is over: every token of the input was processed
SuiteReturn ==
    /\ \E markdown \in Markdowns : tokens \in parseMarkdown(markdown)
    /\ Return

SuiteInit ==
    /\ pc = "start"
    /\ startIndex \in StartIndices
    /\ \E tabId \in TabIds : context = NewContext(startIndex, tabId)
    /\ ntokens = 0
    /\ tokens = <<>>
    /\ open = <<>>
    /\ nblocks = 0
    /\ result = NoResult
    /\ error = NoError
    /\ raised = NoRaised
    /\ other = NoCall
    /\ docs = NoCalls
    /\ split = NoSplit
    /\ tool = NoTool

SuiteNext == ReturnEmpty \/ Parse \/ SuiteWalk \/ SuiteReturn

SpecSuite == SuiteInit /\ [][SuiteNext]_vars

(***************************************************************************)
(* Two calls of convertMarkdownToRequests on inputs of the test suite,     *)
(* their loop iterations interleaved in any order.  The first call runs in *)
(* the variables of a single call, the second in the record other.         *)
(***************************************************************************)
\* the whole call at once: the loop over the tokens, finalizeFormatting and the return
convertMarkdownToRequests(stream, start, tabId) ==
    LET finalized == finalizeFormatting(processChildren(stream, 1, NewContext(start, tabId)).context)
    IN finalized.insertRequests \o finalized.formatRequests

PairInit ==
    /\ pc = "start"
    /\ startIndex \in StartIndices
    /\ \E tabId \in TabIds : context = NewContext(startIndex, tabId)
    /\ ntokens = 0
    /\ tokens = <<>>
    /\ open = <<>>
    /\ nblocks = 0
    /\ result = NoResult
    /\ error = NoError
    /\ raised = NoRaised
    /\ \E start \in StartIndices, tabId \in {NoTab, "tab-abc"} :
         other = [pc |-> "start", startIndex |-> start, context |-> NewContext(start, tabId),
                  tokens |-> <<>>, result |-> NoResult, overlapped |-> FALSE]
    /\ docs = NoCalls
    /\ split = NoSplit
    /\ tool = NoTool

\* the second call parses its markdown and enters its loop
OtherParse ==
    /\ other.pc = "start"
    /\ other' = [other EXCEPT !.pc = "walking"]
    /\ UNCHANGED <<convVarsButOther, docs, split, tool>>

\* faulty variant of OtherWalk (sensitivity of C21): the second call works on the first call's context
OtherWalkSharedContext ==
    /\ other.pc = "walking"
    /\ \E markdown \in Markdowns : \E stream \in parseMarkdown(markdown) :
         /\ Len(other.tokens) < Len(stream)
         /\ SubSeq(stream, 1, Len(other.tokens)) = other.tokens
         /\ other' = [other EXCEPT
                        !.context = processToken(stream[Len(other.tokens) + 1], context).context,
                        !.tokens = Append(@, stream[Len(other.tokens) + 1]),
                        !.overlapped = @ \/ (pc = "walking" /\ ntokens > 0)]
    /\ UNCHANGED <<convVarsButOther, docs, split, tool>>

\* one iteration of the second call's loop, on its own context
OtherWalk ==
    /\ other.pc = "walking"
    /\ \E markdown \in Markdowns : \E stream \in parseMarkdown(markdown) :
         /\ Len(other.tokens) < Len(stream)
         /\ SubSeq(stream, 1, Len(other.tokens)) = other.tokens
         /\ other' = [other EXCEPT
                        !.context = processToken(stream[Len(other.tokens) + 1], other.context).context,
                        !.tokens = Append(@, stream[Len(other.tokens) + 1]),
                        !.overlapped = @ \/ (pc = "walking" /\ ntokens > 0)]
    /\ UNCHANGED <<convVarsButOther, docs, split, tool>>

\* the second call's loop is over: finalizeFormatting and the return
OtherReturn ==
    /\ other.pc = "walking"
    /\ \E markdown \in Markdowns : other.tokens \in parseMarkdown(markdown)
    /\ LET finalized == finalizeFormatting(other.context)
       IN other' = [other EXCEPT !.pc = "returned",
                                 !.context = finalized,
                                 !.result = finalized.insertRequests \o finalized.formatRequests]
    /\ UNCHANGED <<convVarsButOther, docs, split, tool>>

PairNext == Parse \/ SuiteWalk \/ SuiteReturn \/ OtherParse \/ OtherWalk \/ OtherReturn

SpecPair == PairInit /\ [][PairNext]_vars

(***************************************************************************)
(* Faults inside the try block: a callee of processToken or of             *)
(* finalizeFormatting throws something that is no MarkdownConversionError, *)
(* an Error of another class or a value that is no Error at all.           *)
(***************************************************************************)
Thrown ==
    { [class |-> "TypeError", isError |-> TRUE, message |-> "Cannot read properties of undefined"],
      [class |-> "UserError", isError |-> TRUE, message |-> "Invalid hex color format"],
      [class |-> "string", isError |-> FALSE, message |-> NoError] }

FaultTokens ==
    { Tok("bullet_list_open"), Tok("list_item_open"), Tok("list_item_close"), Tok("strong_open"),
      TokContent("text", <<"a">>), Tok("hr") }

FaultWalk == More /\ \E tok \in FaultTokens : Walk(tok) /\ UNCHANGED <<tokens, open, nblocks>>

\* the throw reaches the catch block, and what the catch block throws leaves the call
Fault(thrown) ==
    /\ pc = "walking"
    /\ pc' = "raised"
    /\ raised' = catchBlock(thrown)
    /\ error' = raised'.message
    /\ UNCHANGED <<startIndex, context, tokens, open, nblocks, result, other, docs, split, tool>>

\* processToken throws while it handles the next token
FaultInPass == More /\ \E thrown \in Thrown : Fault(thrown) /\ ntokens' = ntokens + 1

\* finalizeFormatting throws after the loop
FaultInFinalize == \E thrown \in Thrown : Fault(thrown) /\ UNCHANGED ntokens

FaultNext == ReturnEmpty \/ Parse \/ FaultWalk \/ FaultInPass \/ FaultInFinalize \/ Return

SpecFault == Init /\ [][FaultNext]_vars

(***************************************************************************)
(* executeBatchUpdateWithSplitting: the requests are separated into        *)
(* deletions, insertions and the rest, and each group is sent in slices of *)
(* MAX_BATCH_UPDATE_REQUESTS requests, one awaited batchUpdate per slice.  *)
(***************************************************************************)
MAX_BATCH_UPDATE_REQUESTS == 50
MaxRequests == 3

convVars == <<convVarsButOther, other>>

InsertKeys == {"insertText", "insertTable", "insertPageBreak", "insertInlineImage", "insertSectionBreak"}

deleteRequests(requests) == SelectSeq(requests, LAMBDA r : "deleteContentRange" \in DOMAIN r)
\* faulty variant of insertRequests (sensitivity of C23): only insertText counts as an insertion
insertRequestsTextOnly(requests) == SelectSeq(requests, LAMBDA r : "insertText" \in DOMAIN r)

insertRequests(requests) == SelectSeq(requests, LAMBDA r : DOMAIN r \cap InsertKeys # {})
formatRequests(requests) ==
    SelectSeq(requests, LAMBDA r : ~("deleteContentRange" \in DOMAIN r) /\ ~(DOMAIN r \cap InsertKeys # {}))

\* Array.prototype.slice(from, to), offsets counted from 0
slice(seq, from, to) == SubSeq(seq, from + 1, IF to < Len(seq) THEN to ELSE Len(seq))

\* the group the frame is sending
groupOf(frame) ==
    CASE frame.pc = "delete" -> deleteRequests(frame.requests)
      [] frame.pc = "insert" -> insertRequests(frame.requests)
      [] frame.pc = "format" -> formatRequests(frame.requests)

\* a request of one kind (the one key it carries); n tells the requests of a list apart
Request(key, n) == [k \in {key} |-> [n |-> n]]
RequestKeys == {"deleteContentRange", "insertText", "insertTable", "updateTextStyle"}
LongKeys(n) ==
    [k \in 1..n |-> CASE k % 3 = 1 -> "updateTextStyle"
                      [] k % 3 = 2 -> "insertText"
                      [] OTHER -> "deleteContentRange"]
LongLengths == {51, 151, 302}
RequestLists ==
    { [k \in 1..Len(keys) |-> Request(keys[k], k)] :
        keys \in UNION {[1..n -> RequestKeys] : n \in 0..MaxRequests} \cup {LongKeys(n) : n \in LongLengths} }

\* if (!requests || requests.length === 0) return; the filters
SplitEnter ==
    /\ split.pc = "called"
    /\ split' = [split EXCEPT !.pc = IF Len(split.requests) = 0 THEN "returned" ELSE "delete"]
    /\ UNCHANGED <<convVars, docs, tool>>

\* await executeBatchUpdate(docs, documentId, batch): the call is sent
SplitIssue ==
    /\ split.pc \in {"delete", "insert", "format"}
    /\ ~split.awaiting
    /\ split.i < Len(groupOf(split))
    /\ docs' = [calls |-> Append(docs.calls, slice(groupOf(split), split.i, split.i + MAX_BATCH_UPDATE_REQUESTS)),
                inFlight |-> docs.inFlight + 1]
    /\ split' = [split EXCEPT !.awaiting = TRUE]
    /\ UNCHANGED <<convVars, tool>>

\* the call completes and the loop goes on: i += MAX_BATCH
SplitComplete ==
    /\ split.awaiting
    /\ docs' = [docs EXCEPT !.inFlight = @ - 1]
    /\ split' = [split EXCEPT !.awaiting = FALSE, !.i = @ + MAX_BATCH_UPDATE_REQUESTS]
    /\ UNCHANGED <<convVars, tool>>

\* the call is rejected: executeBatchUpdate throws and the function ends
SplitReject ==
    /\ split.awaiting
    /\ docs' = [docs EXCEPT !.inFlight = @ - 1]
    /\ split' = [split EXCEPT !.awaiting = FALSE, !.pc = "raised"]
    /\ UNCHANGED <<convVars, tool>>

\* a loop is over (or its group is empty): the next group, or the return
SplitNextGroup ==
    /\ split.pc \in {"delete", "insert", "format"}
    /\ ~split.awaiting
    /\ split.i >= Len(groupOf(split))
    /\ split' = [split EXCEPT !.i = 0,
                              !.pc = CASE split.pc = "delete" -> "insert"
                                       [] split.pc = "insert" -> "format"
                                       [] split.pc = "format" -> "returned"]
    /\ UNCHANGED <<convVars, docs, tool>>

SplitInit ==
    /\ pc = "start"
    /\ startIndex = 1
    /\ context = NewContext(startIndex, NoTab)
    /\ ntokens = 0
    /\ tokens = <<>>
    /\ open = <<>>
    /\ nblocks = 0
    /\ result = NoResult
    /\ error = NoError
    /\ raised = NoRaised
    /\ other = NoCall
    /\ docs = NoCalls
    /\ \E requests \in RequestLists : split = [NoSplit EXCEPT !.pc = "called", !.requests = requests]
    /\ tool = NoTool

SplitNext == SplitEnter \/ SplitIssue \/ SplitComplete \/ SplitReject \/ SplitNextGroup

SpecSplit == SplitInit /\ [][SplitNext]_vars

(***************************************************************************)
(* replaceDocumentWithMarkdown: the existing content is deleted in a call  *)
(* of its own, the markdown is converted, and the requests are sent by     *)
(* executeBatchUpdateWithSplitting.  startIndex is 1, or the end of the    *)
(* first paragraph when the title is preserved.                            *)
(***************************************************************************)
EndIndices == {1, 3}

ReplaceInit ==
    /\ pc = "start"
    /\ startIndex \in StartIndices
    /\ \E tabId \in {NoTab, "tab-abc"} : context = NewContext(startIndex, tabId)
    /\ ntokens = 0
    /\ tokens = <<>>
    /\ open = <<>>
    /\ nblocks = 0
    /\ result = NoResult
    /\ error = NoError
    /\ raised = NoRaised
    /\ other = NoCall
    /\ docs = NoCalls
    /\ split = NoSplit
    /\ \E endIndex \in EndIndices : tool = [pc |-> "delete", endIndex |-> endIndex]

\* 3. Delete existing content FIRST in a separate API call
ReplaceDelete ==
    /\ tool.pc = "delete"
    /\ IF tool.endIndex > startIndex
       THEN /\ docs' = [calls |-> Append(docs.calls,
                                         <<[deleteContentRange |-> [range |-> Range(startIndex, tool.endIndex, context.tabId)]]>>),
                        inFlight |-> docs.inFlight + 1]
            /\ tool' = [tool EXCEPT !.pc = "deleting"]
       ELSE /\ docs' = docs
            /\ tool' = [tool EXCEPT !.pc = "convert"]
    /\ UNCHANGED <<convVars, split>>

\* the deletion completes, or it is rejected and executeBatchUpdate throws
ReplaceDeleted ==
    /\ tool.pc = "deleting"
    /\ docs' = [docs EXCEPT !.inFlight = @ - 1]
    /\ \E next \in {"convert", "raised"} : tool' = [tool EXCEPT !.pc = next]
    /\ UNCHANGED <<convVars, split>>

\* 4. convertMarkdownToRequests(args.markdown, startIndex, args.tabId)
ReplaceConvert ==
    /\ tool.pc = "convert"
    /\ ReturnEmpty \/ Parse \/ FaultWalk \/ FaultInPass \/ FaultInFinalize \/ Return

\* 5. executeBatchUpdateWithSplitting(docs, args.documentId, markdownRequests, log)
ReplaceApply ==
    /\ tool.pc = "convert"
    /\ pc = "returned"
    /\ tool' = [tool EXCEPT !.pc = "apply"]
    /\ split' = [NoSplit EXCEPT !.pc = "called", !.requests = result]
    /\ UNCHANGED <<convVars, docs>>

\* the success message is returned
ReplaceReturn ==
    /\ tool.pc = "apply"
    /\ split.pc = "returned"
    /\ tool' = [tool EXCEPT !.pc = "returned"]
    /\ UNCHANGED <<convVars, docs, split>>

\* catch (error): what the conversion or the sending threw leaves the tool
ReplaceCatch ==
    /\ \/ tool.pc = "convert" /\ pc = "raised"
       \/ tool.pc = "apply" /\ split.pc = "raised"
    /\ tool' = [tool EXCEPT !.pc = "raised"]
    /\ UNCHANGED <<convVars, docs, split>>

ReplaceNext ==
    \/ ReplaceDelete \/ ReplaceDeleted \/ ReplaceConvert \/ ReplaceApply
    \/ SplitEnter \/ SplitIssue \/ SplitComplete \/ SplitReject \/ SplitNextGroup
    \/ ReplaceReturn \/ ReplaceCatch

SpecReplace == ReplaceInit /\ [][ReplaceNext]_vars

(***************************************************************************)
(* Vocabulary of the properties: the kinds of request, the text inserted,  *)
(* the offsets a request addresses.                                        *)
(***************************************************************************)
IsInsert(r) == "insertText" \in DOMAIN r
IsTextStyle(r) == "updateTextStyle" \in DOMAIN r
IsParagraphStyle(r) == "updateParagraphStyle" \in DOMAIN r
IsBullet(r) == "createParagraphBullets" \in DOMAIN r
IsHeadingStyle(r) == IsParagraphStyle(r) /\ "namedStyleType" \in DOMAIN r.updateParagraphStyle.paragraphStyle
IsBorderStyle(r) == IsParagraphStyle(r) /\ "borderBottom" \in DOMAIN r.updateParagraphStyle.paragraphStyle

RangeOf(r) ==
    CASE IsTextStyle(r) -> r.updateTextStyle.range
      [] IsParagraphStyle(r) -> r.updateParagraphStyle.range
      [] IsBullet(r) -> r.createParagraphBullets.range

\* the total length of the text of the first n requests of reqs that are insertions
RECURSIVE InsertedLength(_, _)
InsertedLength(reqs, n) ==
    IF n = 0 THEN 0
    ELSE InsertedLength(reqs, n - 1)
         + (IF IsInsert(reqs[n]) THEN Len(reqs[n].insertText.text) ELSE 0)

Returned == pc = "returned" /\ result # NoResult
Bullets == IF Returned THEN SelectSeq(result, IsBullet) ELSE <<>>

\* C1: whenever the conversion returns, every offset a returned operation
\* addresses (the index of an insertion, both ends of the range of a text
\* style, a heading style, a border and a bullet assignment) lies in
\* [startIndex, finalOffset], finalOffset being startIndex plus the length of
\* all inserted text, which is also where currentIndex ends.
C1_OffsetsWithinDocument ==
    Returned =>
        LET finalOffset == startIndex + InsertedLength(result, Len(result))
            Inside(x) == startIndex <= x /\ x <= finalOffset
        IN /\ startIndex >= 1
           /\ context.currentIndex = finalOffset
           /\ \A i \in 1..Len(result) :
                IF IsInsert(result[i])
                THEN Inside(result[i].insertText.location.index)
                ELSE Inside(RangeOf(result[i]).startIndex) /\ Inside(RangeOf(result[i]).endIndex)

\* a returned list holding a text style, a heading style, a border and a bullet assignment
C1_Witness ==
    /\ Returned
    /\ \E i \in 1..Len(result) : IsTextStyle(result[i])
    /\ \E i \in 1..Len(result) : IsHeadingStyle(result[i])
    /\ \E i \in 1..Len(result) : IsBorderStyle(result[i])
    /\ \E i \in 1..Len(result) : IsBullet(result[i])

\* C2: in every state of a conversion the k-th emitted insertion is located
\* at startIndex plus the length of the insertions emitted before it, and
\* currentIndex is startIndex plus the length of all of them; every step
\* either emits insertions and advances currentIndex by their length or
\* leaves both alone, so the offset never moves backward.
C2_Contiguous ==
    LET reqs == context.insertRequests
    IN /\ \A k \in 1..Len(reqs) :
            reqs[k].insertText.location.index = startIndex + InsertedLength(reqs, k - 1)
       /\ context.currentIndex = startIndex + InsertedLength(reqs, Len(reqs))

C2_Advance ==
    LET before == context.insertRequests
        after == context'.insertRequests
    IN /\ Len(after) >= Len(before)
       /\ SubSeq(after, 1, Len(before)) = before
       /\ context'.currentIndex - context.currentIndex
            = InsertedLength(after, Len(after)) - InsertedLength(before, Len(before))
       /\ context'.currentIndex >= context.currentIndex

C2_ContiguousInsertions == [](C2_Contiguous) /\ [][C2_Advance]_vars

\* a conversion that starts at offset 2 and has emitted a two-character insertion and another one
C2_Witness ==
    /\ startIndex = 2
    /\ Len(context.insertRequests) >= 2
    /\ \E k \in 1..Len(context.insertRequests) : Len(context.insertRequests[k].insertText.text) = 2
    /\ context.insertRequests[2].insertText.location.index > 2

\* C3: in the returned list the insertions come first, in the order they
\* were emitted, nothing but range operations follows them, and every bullet
\* assignment comes after every text style and every paragraph style
\* (heading and border).
C3_InsertionsThenStylesThenBullets ==
    Returned =>
        LET n == Len(context.insertRequests)
        IN /\ Len(result) >= n
           /\ SubSeq(result, 1, n) = context.insertRequests
           /\ \A i \in 1..Len(result) : IsInsert(result[i]) <=> i <= n
           /\ \A i, j \in 1..Len(result) :
                (IsBullet(result[i]) /\ (IsTextStyle(result[j]) \/ IsParagraphStyle(result[j])))
                    => j < i

\* a returned list with two insertions, a text style, a heading style, a border and two bullets
C3_Witness ==
    /\ Returned
    /\ Len(context.insertRequests) >= 2
    /\ Len(Bullets) >= 2
    /\ \E i \in 1..Len(result) : IsTextStyle(result[i])
    /\ \E i \in 1..Len(result) : IsHeadingStyle(result[i]) \/ IsBorderStyle(result[i])

\* C4: the bullet assignments of a returned list are in strictly descending
\* order of range.startIndex: of two consecutive ones the earlier has the
\* strictly greater startIndex, so no two share a startIndex.
C4_BulletsStrictlyDescending ==
    \A i \in 1..(Len(Bullets) - 1) :
        Bullets[i].createParagraphBullets.range.startIndex
            > Bullets[i + 1].createParagraphBullets.range.startIndex

(***************************************************************************)
(* The inline constructs that are open after the first n tokens of a run,  *)
(* oldest first, read off the tokens alone: an open token opens a          *)
(* construct of its kind, a close token closes the most recently opened    *)
(* construct of its kind that is still open.  hreflessOpens says whether a *)
(* link_open that carries no href opens a construct (with no fragment).    *)
(***************************************************************************)
ConstructOf ==
    [ strong_open |-> "bold", strong_close |-> "bold",
      em_open |-> "italic", em_close |-> "italic",
      s_open |-> "strikethrough", s_close |-> "strikethrough",
      link_open |-> "link", link_close |-> "link" ]

CloseConstruct(constructs, kind) ==
    LET same == {i \in 1..Len(constructs) : constructs[i].kind = kind}
    IN IF same = {} THEN constructs
       ELSE LET i == CHOOSE k \in same : \A j \in same : j <= k
            IN SubSeq(constructs, 1, i - 1) \o SubSeq(constructs, i + 1, Len(constructs))

RECURSIVE OpenConstructs(_, _, _)
OpenConstructs(run, n, hreflessOpens) ==
    IF n = 0 THEN <<>>
    ELSE LET before == OpenConstructs(run, n - 1, hreflessOpens)
             tok == run[n]
         IN CASE tok.type \in {"strong_open", "em_open", "s_open"} ->
                    Append(before, [kind |-> ConstructOf[tok.type],
                                    fragment |-> Fragment(ConstructOf[tok.type], TRUE)])
              [] tok.type = "link_open" /\ getLinkHref(tok) \notin {Null, ""} ->
                    Append(before, [kind |-> "link",
                                    fragment |-> Fragment("link", getLinkHref(tok))])
              [] tok.type = "link_open" /\ getLinkHref(tok) \in {Null, ""} ->
                    IF hreflessOpens
                    THEN Append(before, [kind |-> "link", fragment |-> EmptyFormatting])
                    ELSE before
              [] tok.type \in {"strong_close", "em_close", "s_close", "link_close"} ->
                    CloseConstruct(before, ConstructOf[tok.type])
              [] OTHER -> before

\* the oldest-to-newest fold of the fragments: for each field, the value of the newest fragment that has it
LastWriterWins(constructs) ==
    LET having(k) == {i \in 1..Len(constructs) : k \in DOMAIN constructs[i].fragment}
        newest(k) == CHOOSE i \in having(k) : \A j \in having(k) : j <= i
    IN [k \in UNION {DOMAIN constructs[i].fragment : i \in 1..Len(constructs)} |->
            constructs[newest(k)].fragment[k]]

RECURSIVE LiteralLength(_, _)
LiteralLength(run, n) ==
    IF n = 0 THEN 0
    ELSE LiteralLength(run, n - 1)
         + (IF run[n].type \in {"text", "code_inline"} THEN Len(run[n].content) ELSE 0)

\* the spans a run of inline tokens should leave recorded, in order
RECURSIVE ExpectedTextRanges(_, _, _)
ExpectedTextRanges(run, n, hreflessOpens) ==
    IF n = 0 THEN <<>>
    ELSE LET before == ExpectedTextRanges(run, n - 1, hreflessOpens)
             tok == run[n]
             constructs == OpenConstructs(run, n - 1, hreflessOpens)
                           \o (IF tok.type = "code_inline"
                               THEN <<[kind |-> "code", fragment |-> Fragment("code", TRUE)]>>
                               ELSE <<>>)
             formatting == LastWriterWins(constructs)
             start == startIndex + LiteralLength(run, n - 1)
         IN IF tok.type \in {"text", "code_inline"} /\ Len(tok.content) > 0
               /\ DOMAIN formatting # {}
            THEN Append(before, [startIndex |-> start, endIndex |-> start + Len(tok.content),
                                 formatting |-> formatting])
            ELSE before

\* C5 as stated: every literal span is recorded with the last-writer-wins
\* fold of the fragments of all inline constructs open when it is processed,
\* a construct being open from its open token to its matching close token,
\* whatever the nesting and the order of the closes (a span with no open
\* construct is not recorded).
C5_FoldOfOpenConstructs ==
    context.textRanges = ExpectedTextRanges(tokens, Len(tokens), TRUE)

\* C5 amended: the same, where a link_open without an href opens nothing, so
\* that the next link_close closes the most recently opened link that
\* carries an href and is still open.
C5_FoldOfPushedFragments ==
    context.textRanges = ExpectedTextRanges(tokens, Len(tokens), FALSE)

\* a text inside a bold inside a link inside another link: the inner link wins, bold is kept
C5_Witness ==
    /\ Len(tokens) = 4
    /\ tokens[4].type = "text"
    /\ Len(OpenConstructs(tokens, 3, FALSE)) = 3
    /\ Len(context.textRanges) = 1
    /\ context.textRanges[1].formatting = (Fragment("bold", TRUE) @@ Fragment("link", "u2"))

\* C6: a list_item_open processed while no list is open makes the call
\* raise the MarkdownConversionError that names the condition; a call that
\* raised has returned no list, not even the operations accumulated before
\* the fault; and after the raise the call does nothing more, so it raises
\* at most once.
C6_RaisedOutcome == pc = "raised" => error = ListItemError /\ result = NoResult

C6_ListItemOutsideList ==
    (ListItemOpen /\ Len(context.listStack) = 0)
        => (pc' = "raised" /\ error' = ListItemError /\ result' = NoResult)

C6_ListItemOutsideListRaises ==
    /\ [](C6_RaisedOutcome)
    /\ [][C6_ListItemOutsideList]_vars
    /\ [][pc # "raised"]_vars

\* a call that raised after it had accumulated an insertion
C6_Witness == pc = "raised" /\ Len(context.insertRequests) > 0 /\ result = NoResult

\* C7: a call raises only in a step that processes a list_item_open (as a
\* token or as a child of an inline token) while the list stack is empty;
\* after any other token sequence (unmatched closes, unmatched opens, table
\* structure, blockquote and unknown tokens included) the loop can end, and
\* the return gives an operation list and no error.
C7_RaiseOnlyOutsideList ==
    pc' = "raised" =>
        /\ pc = "walking"
        /\ Len(context'.listStack) = 0
        /\ ListItemOpen \/ Inline

C7_ReturnsOtherwise ==
    /\ [][C7_RaiseOnlyOutsideList]_vars
    /\ [](pc = "walking" => ENABLED Return)
    /\ [](pc = "returned" => (result # NoResult /\ error = NoError))

\* a call that returned although a list was left open and a table structure
\* token was processed (its one-blank line is in the list)
C7_Witness ==
    /\ Returned
    /\ Len(context.listStack) > 0
    /\ \E i \in 1..Len(result) : IsInsert(result[i]) /\ result[i].insertText.text = <<SP>>

\* C8: processing a token of an unsupported construct (table_open, the
\* table structure tokens, blockquote_open, blockquote_close, an
\* unrecognised type) emits no insertion and changes no field of the
\* context.
C8_UnsupportedLeavesContext ==
    [][(TableOpen \/ TableStructure \/ Blockquote \/ Unhandled) => context' = context]_vars

(***************************************************************************)
(* Lists, read off the recorded tokens: a document that is one             *)
(* single-level list, its items, and the children of the inline tokens of  *)
(* an item, in order.                                                      *)
(***************************************************************************)
ListOpens == {j \in 1..Len(tokens) : tokens[j].type \in {"bullet_list_open", "ordered_list_open"}}
ListCloses == {j \in 1..Len(tokens) : tokens[j].type \in {"bullet_list_close", "ordered_list_close"}}
ItemOpens == {j \in 1..Len(tokens) : tokens[j].type = "list_item_open"}
ItemCloses == {j \in 1..Len(tokens) : tokens[j].type = "list_item_close"}
ItemCount == Cardinality(ItemOpens)

IsSingleLevelList ==
    /\ ListOpens = {1}
    /\ ListCloses = {Len(tokens)}
    /\ Len(tokens) > 1
    /\ ItemCount >= 1
    /\ Cardinality(ItemCloses) = ItemCount

ItemOpenOf(k) == CHOOSE j \in ItemOpens : Cardinality({i \in ItemOpens : i <= j}) = k
ItemCloseOf(k) == CHOOSE j \in ItemCloses : Cardinality({i \in ItemCloses : i <= j}) = k

RECURSIVE ChildrenBetween(_, _)
ChildrenBetween(from, to) ==
    IF from >= to THEN <<>>
    ELSE (IF tokens[from].type = "inline" THEN tokens[from].children ELSE <<>>)
         \o ChildrenBetween(from + 1, to)

ItemChildren(k) == ChildrenBetween(ItemOpenOf(k), ItemCloseOf(k))

KindPreset ==
    IF tokens[1].type = "ordered_list_open"
    THEN "NUMBERED_DECIMAL_ALPHA_ROMAN" ELSE "BULLET_DISC_CIRCLE_SQUARE"

NonEmptyTexts(children) ==
    {i \in 1..Len(children) :
        children[i].type \in {"text", "code_inline"} /\ Len(children[i].content) > 0}
ContainsText(children) == NonEmptyTexts(children) # {}
FirstText(children) ==
    children[CHOOSE i \in NonEmptyTexts(children) : \A j \in NonEmptyTexts(children) : i <= j].content
BeginsWithTaskPrefix(children) == ContainsText(children) /\ taskPrefixMatch(FirstText(children)) > 0

\* the characters an item's inline token inserts: its literal text less a leading task prefix
InsertedCharacters(children) ==
    LiteralLength(children, Len(children))
        - (IF BeginsWithTaskPrefix(children) THEN taskPrefixMatch(FirstText(children)) ELSE 0)

ItemHasRange(item) == item.endIndex # Undefined /\ item.endIndex > item.startIndex
ItemBullet(item) ==
    [createParagraphBullets |->
        [ range |-> [startIndex |-> item.startIndex, endIndex |-> item.endIndex],
          bulletPreset |-> item.bulletPreset ]]
PresetOf(bullet) == bullet.createParagraphBullets.bulletPreset

\* the bullet assignments of the returned list are, one for one, the pending
\* items whose endIndex is set and greater than their startIndex
OneBulletPerRangedItem ==
    LET items == context.pendingListItems
        ranged == {k \in 1..Len(items) : ItemHasRange(items[k])}
    IN /\ Len(Bullets) = Cardinality(ranged)
       /\ \A k \in ranged :
            Cardinality({i \in 1..Len(Bullets) : Bullets[i] = ItemBullet(items[k])})
                = Cardinality({j \in ranged : ItemBullet(items[j]) = ItemBullet(items[k])})

\* C9 as stated: the returned list holds exactly one bullet assignment for
\* each pending item whose endIndex is set and greater than its startIndex,
\* with that item's range and preset, and none for another item; and a
\* single-level list of n items that each contain non-empty text yields n
\* bullet assignments, all with the preset of the list kind.
C9_BulletsOfListKind ==
    Returned =>
        /\ OneBulletPerRangedItem
        /\ (IsSingleLevelList /\ \A k \in 1..ItemCount : ContainsText(ItemChildren(k)))
             => /\ Len(Bullets) = ItemCount
                /\ \A i \in 1..Len(Bullets) : PresetOf(Bullets[i]) = KindPreset

\* C9 amended: the first part unchanged; and a single-level list of n items
\* whose text (literal and inline-code content) is each non-empty once a
\* task prefix at the head of the item's first non-empty text is removed
\* yields n bullet assignments, the one of an item whose first non-empty
\* text begins with a task prefix having BULLET_CHECKBOX and every other
\* one the preset of the list kind.
C9_BulletsOfInsertedItems ==
    Returned =>
        /\ OneBulletPerRangedItem
        /\ (IsSingleLevelList /\ \A k \in 1..ItemCount : InsertedCharacters(ItemChildren(k)) > 0)
             => /\ Len(Bullets) = ItemCount
                /\ \A k \in 1..ItemCount :
                     PresetOf(Bullets[ItemCount + 1 - k])
                        = IF BeginsWithTaskPrefix(ItemChildren(k))
                          THEN "BULLET_CHECKBOX" ELSE KindPreset

\* an ordered list of a plain item and a task item has returned its two bullets
C9_Witness ==
    /\ Returned
    /\ IsSingleLevelList
    /\ ItemCount = 2
    /\ tokens[1].type = "ordered_list_open"
    /\ ~BeginsWithTaskPrefix(ItemChildren(1))
    /\ BeginsWithTaskPrefix(ItemChildren(2))
    /\ InsertedCharacters(ItemChildren(2)) > 0
    /\ Len(Bullets) = 2

(***************************************************************************)
(* Headings, read off the recorded tokens: the k-th recorded heading range *)
(* belongs to the k-th heading_open, which is at top level when every list *)
(* opened before it has been closed.                                       *)
(***************************************************************************)
HeadingOpens == {j \in 1..Len(tokens) : tokens[j].type = "heading_open"}
HeadingOpenOf(k) == CHOOSE j \in HeadingOpens : Cardinality({i \in HeadingOpens : i <= j}) = k
ListDepthBefore(j) ==
    Cardinality({i \in 1..(j - 1) : tokens[i].type \in {"bullet_list_open", "ordered_list_open"}})
    - Cardinality({i \in 1..(j - 1) : tokens[i].type \in {"bullet_list_close", "ordered_list_close"}})
ListsBefore(j) ==
    Cardinality({i \in 1..(j - 1) : tokens[i].type \in {"bullet_list_close", "ordered_list_close"}})

\* C10: the bullet range of a list item ends strictly before the offset at
\* which content emitted after the item's list_item_close begins (an item
\* that is closed has its endIndex below currentIndex from the state its
\* close leaves on), and the start of a heading opened at top level is
\* inside the range [s, e) of no list item, hence of no bullet assignment.
C10_BulletRangesDoNotBleed ==
    LET items == context.pendingListItems
        closed == {k \in 1..Len(items) :
                      \A i \in 1..Len(context.openListItemStack) : context.openListItemStack[i] # k}
    IN /\ \A k \in closed : items[k].endIndex < context.currentIndex
       /\ \A h \in 1..Len(context.paragraphRanges) :
            ListDepthBefore(HeadingOpenOf(h)) = 0 =>
                \A k \in 1..Len(items) :
                    ItemHasRange(items[k]) =>
                        ~(/\ items[k].startIndex <= context.paragraphRanges[h].startIndex
                          /\ context.paragraphRanges[h].startIndex < items[k].endIndex)
       /\ Returned =>
            \A i \in 1..Len(Bullets) :
                \E k \in 1..Len(items) : ItemHasRange(items[k]) /\ Bullets[i] = ItemBullet(items[k])

\* a returned list with the bullet of an item and the style of a heading that follows the closed list
C10_Witness ==
    /\ Returned
    /\ Len(Bullets) >= 1
    /\ \E h \in 1..Len(context.paragraphRanges) :
         /\ ListDepthBefore(HeadingOpenOf(h)) = 0
         /\ ListsBefore(HeadingOpenOf(h)) >= 1
         /\ \E i \in 1..Len(Bullets) :
              Bullets[i].createParagraphBullets.range.endIndex
                  < context.paragraphRanges[h].startIndex

\* the insertion of text at offset index, no tabId being given
InsertionOf(text, index) ==
    [insertText |-> [location |-> [index |-> index], text |-> text]]

RECURSIVE Tabs(_)
Tabs(n) == IF n = 0 THEN <<>> ELSE Append(Tabs(n - 1), TAB)

\* C11: a bullet_list_open or ordered_list_open pushes a list whose level is
\* the depth of the list stack before the push (0 for the outermost list);
\* a list_item_open inside a list of level L emits exactly L tabs, as one
\* insertion and none when L = 0, and records an item whose startIndex is
\* the offset before those tabs, so that the item's range starts at its
\* first tab.
C11_ListPush ==
    (BulletListOpen \/ OrderedListOpen) =>
        /\ Len(context'.listStack) = Len(context.listStack) + 1
        /\ SubSeq(context'.listStack, 1, Len(context.listStack)) = context.listStack
        /\ Last(context'.listStack).level = Len(context.listStack)

C11_ItemOpen ==
    (ListItemOpen /\ Len(context.listStack) > 0) =>
        LET L == Last(context.listStack).level
            n == Len(context.pendingListItems)
        IN /\ context'.insertRequests =
                context.insertRequests
                \o (IF L = 0 THEN <<>> ELSE <<InsertionOf(Tabs(L), context.currentIndex)>>)
           /\ context'.currentIndex = context.currentIndex + L
           /\ Len(context'.pendingListItems) = n + 1
           /\ context'.pendingListItems[n + 1].startIndex = context.currentIndex
           /\ context'.pendingListItems[n + 1].nestingLevel = L
           /\ Last(context'.openListItemStack) = n + 1

C11_Levels == \A i \in 1..Len(context.listStack) : context.listStack[i].level = i - 1

C11_NestingTabs == [](C11_Levels) /\ [][C11_ListPush]_vars /\ [][C11_ItemOpen]_vars

\* an item of a list of level 1 is open: one tab was inserted at its startIndex
C11_Witness ==
    /\ Len(context.pendingListItems) = 1
    /\ context.pendingListItems[1].nestingLevel = 1
    /\ Len(context.insertRequests) >= 1
    /\ Last(context.insertRequests) = InsertionOf(<<TAB>>, context.pendingListItems[1].startIndex)

(***************************************************************************)
(* Task prefixes, read off a text: "[", one of " ", "x", "X", "]" and at   *)
(* least one whitespace character; the prefix runs to the end of that      *)
(* whitespace.                                                             *)
(***************************************************************************)
StartsWithTaskPrefix(text) ==
    /\ Len(text) >= 4
    /\ text[1] = "[" /\ text[2] \in {" ", "x", "X"} /\ text[3] = "]"
    /\ text[4] \in Whitespace

TaskPrefixEnd(text) ==
    CHOOSE n \in 4..Len(text) :
        /\ \A i \in 4..n : text[i] \in Whitespace
        /\ n = Len(text) \/ text[n + 1] \notin Whitespace

IsLiteral(tok) == tok.type \in {"text", "code_inline"} /\ Len(tok.content) > 0

\* the token the step has just processed is the first non-empty literal of the open item
FirstLiteralOfItem ==
    LET opens == {j \in 1..Len(tokens) : tokens[j].type = "list_item_open"}
        opened == CHOOSE j \in opens : \A i \in opens : i <= j
    IN /\ opens # {}
       /\ \A j \in opened..Len(tokens) : tokens[j].type # "list_item_close" /\ ~IsLiteral(tokens[j])

\* C12: the first non-empty literal text of a list item, when it starts
\* with a task prefix, makes the item's preset BULLET_CHECKBOX and is
\* inserted without the prefix (no insertion and no span when nothing is
\* left); every other literal text of the item, a later one that starts
\* with a task prefix included, is inserted verbatim as one insertion and
\* changes no item.
C12_LiteralStep ==
    (Len(tokens') = Len(tokens) + 1 /\ IsLiteral(Last(tokens')) /\ Len(context.openListItemStack) > 0) =>
        LET text == Last(tokens').content
            k == Last(context.openListItemStack)
            presets(ctx) == [i \in 1..Len(ctx.pendingListItems) |-> ctx.pendingListItems[i].bulletPreset]
        IN IF FirstLiteralOfItem /\ StartsWithTaskPrefix(text)
           THEN LET rest == SubSeq(text, TaskPrefixEnd(text) + 1, Len(text))
                IN /\ presets(context') = [presets(context) EXCEPT ![k] = "BULLET_CHECKBOX"]
                   /\ context'.insertRequests =
                        context.insertRequests
                        \o (IF rest = <<>> THEN <<>> ELSE <<InsertionOf(rest, context.currentIndex)>>)
                   /\ rest = <<>> => context'.textRanges = context.textRanges
           ELSE /\ presets(context') = presets(context)
                /\ context'.insertRequests =
                        context.insertRequests \o <<InsertionOf(text, context.currentIndex)>>

C12_TaskPrefixOncePerItem == [][C12_LiteralStep]_vars

\* an item whose first text was a bare task prefix and whose later text, which starts
\* with a task prefix too, was inserted verbatim
C12_Witness ==
    /\ Len(tokens) = 4
    /\ tokens[3].type = "text" /\ tokens[3].content = <<"[", " ", "]", " ">>
    /\ tokens[4].type = "text" /\ tokens[4].content = <<"[", "x", "]", " ", "a">>
    /\ context.pendingListItems[1].bulletPreset = "BULLET_CHECKBOX"
    /\ Len(context.insertRequests) = 1
    /\ context.insertRequests[1].insertText.text = <<"[", "x", "]", " ", "a">>

HeadingStyles == IF Returned THEN SelectSeq(result, IsHeadingStyle) ELSE <<>>

\* C13: the step that processes the heading_close of a heading of level n
\* (its heading_open and its inline token are the two tokens before it)
\* records exactly one paragraph range, from the offset at the heading_open
\* to the offset at the heading_close, with style HEADING_n, then emits
\* exactly one "\n" insertion, outside the range, and clears the heading
\* level and the paragraph start; and the returned list holds exactly one
\* updateParagraphStyle of namedStyleType per recorded range, in order.
C13_HeadingCloseStep ==
    (Len(tokens') = Len(tokens) + 1 /\ Last(tokens').type = "heading_close") =>
        LET n == getHeadingLevel(tokens[Len(tokens) - 1])
            text == LiteralLength(Last(tokens).children, Len(Last(tokens).children))
        IN /\ tokens[Len(tokens) - 1].type = "heading_open"
           /\ n \in 1..6
           /\ context'.paragraphRanges =
                Append(context.paragraphRanges,
                       [ startIndex |-> context.currentIndex - text,
                         endIndex |-> context.currentIndex,
                         namedStyleType |-> <<"HEADING", n>> ])
           /\ context'.insertRequests =
                Append(context.insertRequests, InsertionOf(<<NL>>, context.currentIndex))
           /\ context'.currentHeadingLevel = Undefined
           /\ context'.currentParagraphStart = Undefined

C13_HeadingStyles ==
    Returned =>
        HeadingStyles =
            [ i \in 1..Len(context.paragraphRanges) |->
                [updateParagraphStyle |->
                    [ range |-> [ startIndex |-> context.paragraphRanges[i].startIndex,
                                  endIndex |-> context.paragraphRanges[i].endIndex ],
                      paragraphStyle |->
                          [namedStyleType |-> context.paragraphRanges[i].namedStyleType],
                      fields |-> <<"namedStyleType">> ]] ]

C13_HeadingRange == [][C13_HeadingCloseStep]_vars /\ [](C13_HeadingStyles)

\* a returned list with the style of a heading over its one character, its "\n" at the range's end
C13_Witness ==
    /\ Returned
    /\ Len(HeadingStyles) >= 1
    /\ \E i \in 1..Len(context.insertRequests) :
         /\ context.insertRequests[i].insertText.text = <<NL>>
         /\ context.insertRequests[i].insertText.location.index
              = HeadingStyles[1].updateParagraphStyle.range.endIndex
    /\ HeadingStyles[1].updateParagraphStyle.range.endIndex
         = HeadingStyles[1].updateParagraphStyle.range.startIndex + 1

BorderStyles == IF Returned THEN SelectSeq(result, IsBorderStyle) ELSE <<>>
TextOf(request) == request.insertText.text
IndexOf(request) == request.insertText.location.index

\* C14: the step that processes an hr token inserts one "\n" for the rule,
\* after a separating "\n" when the last insertion does not end with one,
\* and records one range [s, e) that covers exactly the rule's "\n"; the
\* insertion that ends at s ends with "\n"; in every state the insertions
\* emitted before the rule's are at offsets < s and those emitted after it
\* at offsets >= e; and the returned list holds exactly one border
\* operation (borderBottom SOLID, 1 PT) per recorded range, over it.
C14_RuleStep ==
    HorizontalRule =>
        LET separator == IF /\ Len(context.insertRequests) > 0
                            /\ Last(TextOf(Last(context.insertRequests))) = NL
                         THEN <<>>
                         ELSE <<InsertionOf(<<NL>>, context.currentIndex)>>
            s == context.currentIndex + Len(separator)
            after == context'.insertRequests
        IN /\ after = context.insertRequests \o separator \o <<InsertionOf(<<NL>>, s)>>
           /\ context'.hrRanges = Append(context.hrRanges, [startIndex |-> s, endIndex |-> s + 1])
           /\ Len(after) >= 2
           /\ Last(TextOf(after[Len(after) - 1])) = NL
           /\ IndexOf(after[Len(after) - 1]) + Len(TextOf(after[Len(after) - 1])) = s

C14_RuleBetween ==
    \A k \in 1..Len(context.hrRanges) :
        LET s == context.hrRanges[k].startIndex
            e == context.hrRanges[k].endIndex
            reqs == context.insertRequests
        IN \E r \in 1..Len(reqs) :
              /\ reqs[r] = InsertionOf(<<NL>>, s)
              /\ e = s + 1
              /\ \A i \in 1..(r - 1) : IndexOf(reqs[i]) < s
              /\ \A i \in (r + 1)..Len(reqs) : IndexOf(reqs[i]) >= e

C14_Borders ==
    Returned =>
        /\ Len(BorderStyles) = Len(context.hrRanges)
        /\ \A k \in 1..Len(BorderStyles) :
             LET op == BorderStyles[k].updateParagraphStyle
             IN /\ op.range = [ startIndex |-> context.hrRanges[k].startIndex,
                                endIndex |-> context.hrRanges[k].endIndex ]
                /\ op.paragraphStyle.borderBottom.dashStyle = "SOLID"
                /\ op.paragraphStyle.borderBottom.width = [magnitude |-> 1, unit |-> "PT"]
                /\ op.fields = <<"borderBottom">>

C14_RuleBorder == [][C14_RuleStep]_vars /\ [](C14_RuleBetween) /\ [](C14_Borders)

\* a returned list with one border between a text inserted before the rule and one inserted after it
C14_Witness ==
    /\ Returned
    /\ Len(BorderStyles) = 1
    /\ Len(context.insertRequests) = 4
    /\ TextOf(context.insertRequests[1]) = <<"a">>
    /\ TextOf(context.insertRequests[4]) = <<"a">>
    /\ IndexOf(context.insertRequests[3]) = BorderStyles[1].updateParagraphStyle.range.startIndex

(***************************************************************************)
(* The lines of the content of a code block, read off the content: one     *)
(* trailing "\n" is dropped, the rest is cut at every "\n", and an empty   *)
(* line stands as one space.                                               *)
(***************************************************************************)
ContentLines(content) ==
    LET kept == IF Len(content) > 0 /\ content[Len(content)] = NL
                THEN SubSeq(content, 1, Len(content) - 1) ELSE content
        cuts == {i \in 1..Len(kept) : kept[i] = NL}
        cut(k) == IF k = 0 THEN 0
                  ELSE IF k > Cardinality(cuts) THEN Len(kept) + 1
                  ELSE CHOOSE i \in cuts : Cardinality({j \in cuts : j <= i}) = k
    IN [k \in 1..(Cardinality(cuts) + 1) |->
            LET line == SubSeq(kept, cut(k - 1) + 1, cut(k) - 1)
            IN IF line = <<>> THEN <<SP>> ELSE line]

\* the offset of the k-th line of lines when the first starts at offset from, each line followed by one "\n"
RECURSIVE LineOffset(_, _, _)
LineOffset(lines, k, from) ==
    IF k = 1 THEN from ELSE LineOffset(lines, k - 1, from) + Len(lines[k - 1]) + 1

\* C15: the step that processes a fence or code_block token emits, for each
\* content line (one trailing terminator dropped, an empty line replaced by
\* one space), one insertion of the line followed by a separate "\n"
\* insertion, and records exactly one code span per line, over the line's
\* own characters [s, s + length); a last "\n" follows the lines; no code
\* span recorded by the step includes the offset of a terminator.
C15_BlockStep ==
    \A type \in {"fence", "code_block"} : \A content \in BlockContents :
        (More /\ Walk(TokContent(type, content))) =>
            LET lines == ContentLines(content)
                n == Len(lines)
                s(k) == LineOffset(lines, k, context.currentIndex)
                added == SubSeq(context'.insertRequests, Len(context.insertRequests) + 1,
                                Len(context'.insertRequests))
                spans == SubSeq(context'.textRanges, Len(context.textRanges) + 1,
                                Len(context'.textRanges))
            IN /\ SubSeq(context'.insertRequests, 1, Len(context.insertRequests)) = context.insertRequests
               /\ SubSeq(context'.textRanges, 1, Len(context.textRanges)) = context.textRanges
               /\ Len(added) = 2 * n + 1
               /\ \A k \in 1..n :
                    /\ added[2 * k - 1] = InsertionOf(lines[k], s(k))
                    /\ added[2 * k] = InsertionOf(<<NL>>, s(k) + Len(lines[k]))
               /\ added[2 * n + 1] = InsertionOf(<<NL>>, s(n) + Len(lines[n]) + 1)
               /\ spans = [k \in 1..n |-> [ startIndex |-> s(k), endIndex |-> s(k) + Len(lines[k]),
                                            formatting |-> Fragment("code", TRUE) ]]
               /\ \A k \in 1..n : \A i \in 1..Len(added) :
                    (TextOf(added[i]) = <<NL>>) =>
                        ~(spans[k].startIndex <= IndexOf(added[i]) /\ IndexOf(added[i]) < spans[k].endIndex)

C15_CodeLines == [][C15_BlockStep]_vars

\* a code block of three lines, the middle one empty, was processed: three code spans, seven insertions
C15_Witness ==
    /\ pc = "walking"
    /\ Len(context.textRanges) = 3
    /\ Len(context.insertRequests) = 7
    /\ TextOf(context.insertRequests[3]) = <<SP>>
    /\ context.textRanges[2] = [ startIndex |-> startIndex + 2, endIndex |-> startIndex + 3,
                                 formatting |-> Fragment("code", TRUE) ]

(***************************************************************************)
(* What a recorded span asks of the finalizer, read off its formatting.    *)
(***************************************************************************)
SpanIsSet(span, key) == key \in DOMAIN span.formatting /\ span.formatting[key] = TRUE

\* the textStyle fields of the first operation of a span
SpanStyleFields(span) ==
    {k \in {"bold", "italic", "strikethrough"} : SpanIsSet(span, k)}
    \cup (IF SpanIsSet(span, "code")
          THEN {"weightedFontFamily", "foregroundColor", "backgroundColor"} ELSE {})

SpanHasLink(span) == "link" \in DOMAIN span.formatting

\* what an updateTextStyle operation addresses and names
StyleView(r) ==
    [ startIndex |-> r.updateTextStyle.range.startIndex,
      endIndex |-> r.updateTextStyle.range.endIndex,
      named |-> DOMAIN r.updateTextStyle.textStyle,
      fields |-> {r.updateTextStyle.fields[i] : i \in 1..Len(r.updateTextStyle.fields)},
      count |-> Len(r.updateTextStyle.fields),
      link |-> IF "link" \in DOMAIN r.updateTextStyle.textStyle
               THEN r.updateTextStyle.textStyle["link"].url ELSE "" ]

RECURSIVE ExpectedStyleViews(_, _)
ExpectedStyleViews(spans, n) ==
    IF n = 0 THEN <<>>
    ELSE LET span == spans[n]
             view(names, link) ==
                [ startIndex |-> span.startIndex, endIndex |-> span.endIndex,
                  named |-> names, fields |-> names, count |-> Cardinality(names),
                  link |-> link ]
         IN ExpectedStyleViews(spans, n - 1)
            \o (IF SpanStyleFields(span) # {} THEN <<view(SpanStyleFields(span), "")>> ELSE <<>>)
            \o (IF SpanHasLink(span) THEN <<view({"link"}, span.formatting["link"])>> ELSE <<>>)

TextStyles == IF Returned THEN SelectSeq(result, IsTextStyle) ELSE <<>>

\* the fold of the formatting stack, oldest to newest
MergedFormatting ==
    LastWriterWins([i \in 1..Len(context.formattingStack) |->
                        [fragment |-> context.formattingStack[i]]])

Unformatted(formatting) ==
    \A k \in DOMAIN formatting : k # "link" /\ formatting[k] # TRUE

\* a text token processed while the merged formatting has no true field and no link records no span
C16_PlainTextStep ==
    (/\ Len(tokens') = Len(tokens) + 1
     /\ tokens'[Len(tokens')].type = "text"
     /\ Unformatted(MergedFormatting))
        => /\ context'.textRanges = context.textRanges
           /\ context'.formatRequests = context.formatRequests

\* the updateTextStyle operations returned are, span by span in recording order, the expected ones
C16_StylesOfSpans ==
    Returned =>
        /\ Len(TextStyles) = Len(ExpectedStyleViews(context.textRanges, Len(context.textRanges)))
        /\ \A i \in 1..Len(TextStyles) :
              /\ StyleView(TextStyles[i])
                    = ExpectedStyleViews(context.textRanges, Len(context.textRanges))[i]
              /\ \A k \in {"bold", "italic", "strikethrough"} \cap DOMAIN TextStyles[i].updateTextStyle.textStyle :
                    TextStyles[i].updateTextStyle.textStyle[k] = TRUE

\* C16: for each recorded styled span the finalizer emits exactly one
\* updateTextStyle naming exactly the bold / italic / strikethrough fields
\* that are set (plus font family, foreground and background colour iff code
\* is set) when any of those is set, and exactly one further updateTextStyle
\* naming only the link when a link is present, both over the span's range;
\* literal text emitted while the merged formatting has no true field and no
\* link records no span and yields no updateTextStyle.
C16_OneStylePlusOneLink == [][C16_PlainTextStep]_vars /\ [](C16_StylesOfSpans)

\* a plain text, then a bold text inside a link: one span, two operations over it
C16_Witness ==
    /\ Returned
    /\ Len(SelectSeq(result, IsInsert)) = 2
    /\ Len(context.textRanges) = 1
    /\ SpanStyleFields(context.textRanges[1]) = {"bold"}
    /\ SpanHasLink(context.textRanges[1])
    /\ Len(TextStyles) = 2
    /\ StyleView(TextStyles[2]).named = {"link"}

(***************************************************************************)
(* Conversions of the inputs of the test suite.                            *)
(***************************************************************************)
Converted(markdown) == Returned /\ tokens \in parseMarkdown(markdown)

Insertions == IF Returned THEN SelectSeq(result, IsInsert) ELSE <<>>

BoldText == <<"b", "o", "l", "d", " ", "t", "e", "x", "t">>

\* exactly one character-style operation, over [1, 10), with bold = true and no other style field
OneBoldStyle ==
    /\ Len(TextStyles) = 1
    /\ TextStyles[1].updateTextStyle.range.startIndex = 1
    /\ TextStyles[1].updateTextStyle.range.endIndex = 10
    /\ TextStyles[1].updateTextStyle.textStyle = [bold |-> TRUE]
    /\ TextStyles[1].updateTextStyle.fields = <<"bold">>

\* C17 as stated: converting "**bold text**" at offset 1 yields exactly one
\* insertion ("bold text" at offset 1) and exactly one character-style
\* operation, over [1, 10), with bold = true and no other style field set.
C17_BoldTextOneInsertion ==
    (Converted("**bold text**") /\ startIndex = 1) =>
        /\ Len(Insertions) = 1
        /\ TextOf(Insertions[1]) = BoldText
        /\ IndexOf(Insertions[1]) = 1
        /\ OneBoldStyle

\* C17 amended: converting "**bold text**" at offset 1 yields exactly two
\* insertions ("bold text" at offset 1, then the "\n\n" that closes the
\* paragraph, at offset 10) and exactly one character-style operation, over
\* [1, 10), with bold = true and no other style field set.
C17_BoldTextThenBlankLine ==
    (Converted("**bold text**") /\ startIndex = 1) =>
        /\ Len(Insertions) = 2
        /\ TextOf(Insertions[1]) = BoldText
        /\ IndexOf(Insertions[1]) = 1
        /\ TextOf(Insertions[2]) = <<NL, NL>>
        /\ IndexOf(Insertions[2]) = 10
        /\ OneBoldStyle

\* "**bold text**" was converted at offset 1, its stream holding the empty texts of the outer delimiters
C17_Witness ==
    /\ Converted("**bold text**")
    /\ startIndex = 1
    /\ Len(tokens[2].children) = 5
    /\ Len(result) = 3

\* where a returned operation is addressed: the location of an insertion, the range of the others
AddressOf(r) == IF IsInsert(r) THEN r.insertText.location ELSE RangeOf(r)

CarriesTab(r) == "tabId" \in DOMAIN AddressOf(r)

EndsInTerminator(r) == Len(TextOf(r)) > 0 /\ TextOf(r)[Len(TextOf(r))] = NL
PureTerminator(r) == Len(TextOf(r)) > 0 /\ \A i \in 1..Len(TextOf(r)) : TextOf(r)[i] = NL

\* the insertions j - 2, j - 1 and j of reqs: the first two end in a line terminator, the third is nothing else
TripleAt(reqs, j) ==
    /\ j >= 3
    /\ EndsInTerminator(reqs[j - 2])
    /\ EndsInTerminator(reqs[j - 1])
    /\ PureTerminator(reqs[j])

\* C19 as stated: there is no run of three consecutive insertions in which
\* the first two both end in a line terminator and the third is a pure
\* line-terminator insertion.
C19_NoTripleTermination ==
    \A j \in 1..Len(context.insertRequests) : ~TripleAt(context.insertRequests, j)

\* the step emits the j-th insertion as a terminator its token always emits:
\* the paragraph of a horizontal rule (the last insertion of its step), the
\* terminator of a heading, a hard break, the blank line after a paragraph
\* outside a list
AlwaysEmitted(j) ==
    \/ More /\ Walk(Tok("hr")) /\ j = Len(context'.insertRequests)
    \/ More /\ Walk(Tok("heading_close"))
    \/ More /\ Walk(Tok("hardbreak"))
    \/ More /\ Walk(Tok("paragraph_close")) /\ Len(context.listStack) = 0

C19_TerminatorStep ==
    \A j \in (Len(context.insertRequests) + 1)..Len(context'.insertRequests) :
        TripleAt(context'.insertRequests, j) => AlwaysEmitted(j)

\* C19 amended: there is no run of three consecutive insertions in which the
\* first two both end in a line terminator and the third is a pure
\* line-terminator insertion, except where the third is a terminator that
\* its token always emits: the paragraph of a horizontal rule, the
\* terminator closing a heading, a hard break, or the blank line closing a
\* paragraph outside a list.  The terminators emitted on condition (by a
\* paragraph_close inside a list, by a list_item_close, as the separator
\* before a horizontal rule) and those of a code block never come third.
C19_NoConditionalTriple == [][C19_TerminatorStep]_vars

\* inside a list, two rules in a row: separator, rule, rule; the second rule emitted no separator
C19_Witness ==
    /\ pc = "walking"
    /\ ntokens = 3
    /\ Len(context.listStack) = 1
    /\ Len(context.hrRanges) = 2
    /\ Len(context.insertRequests) = 3
    /\ TripleAt(context.insertRequests, 3)

(***************************************************************************)
(* The text emitted so far: the concatenation of all inserted text.        *)
(***************************************************************************)
RECURSIVE EmittedText(_, _)
EmittedText(reqs, n) ==
    IF n = 0 THEN <<>> ELSE EmittedText(reqs, n - 1) \o TextOf(reqs[n])

EndsWithOneTerminator(text) ==
    /\ Len(text) >= 1
    /\ text[Len(text)] = NL
    /\ ~(Len(text) >= 2 /\ text[Len(text) - 1] = NL)

\* the step processes a list_item_close that matches an open list item
ClosesOpenItem ==
    /\ Len(tokens') = Len(tokens) + 1
    /\ tokens'[Len(tokens')].type = "list_item_close"
    /\ Len(context.openListItemStack) > 0

\* C20 as stated: after a list_item_close that matches an open list item the
\* emitted text ends with exactly one line terminator: the concatenation of
\* all inserted text ends with "\n" but not with "\n\n", whatever the item
\* contained.
C20_ExactlyOneTerminator ==
    [][ClosesOpenItem =>
          EndsWithOneTerminator(EmittedText(context'.insertRequests, Len(context'.insertRequests)))]_vars

C20_CloseStep ==
    ClosesOpenItem =>
        LET before == EmittedText(context.insertRequests, Len(context.insertRequests))
            after == EmittedText(context'.insertRequests, Len(context'.insertRequests))
        IN /\ Len(after) >= 1 /\ after[Len(after)] = NL
           /\ IF Len(before) >= 1 /\ before[Len(before)] = NL
              THEN context'.insertRequests = context.insertRequests
              ELSE /\ Len(context'.insertRequests) = Len(context.insertRequests) + 1
                   /\ after = before \o <<NL>>
                   /\ EndsWithOneTerminator(after)

\* C20 amended: after a list_item_close that matches an open list item the
\* emitted text ends with a line terminator, and the close adds none of its
\* own when the text already ends in one: it emits "\n" only when the text
\* emitted so far does not end in "\n", and the text then ends with exactly
\* one.  Where the item's content already ended in "\n\n" (a code block is
\* always followed by one) the text still ends in "\n\n" after the close.
C20_TerminatedOnce == [][C20_CloseStep]_vars

\* an item that holds a code block was closed: the text ends in "\n\n"
C20_Witness ==
    /\ pc = "walking"
    /\ Len(tokens) >= 3
    /\ tokens[Len(tokens)].type = "list_item_close"
    /\ tokens[Len(tokens) - 1].type = "fence"
    /\ LET text == EmittedText(context.insertRequests, Len(context.insertRequests))
       IN Len(text) >= 2 /\ text[Len(text)] = NL /\ text[Len(text) - 1] = NL

(***************************************************************************)
(* The formatting stack across a close token.                              *)
(***************************************************************************)
CloseTypes == {"strong_close", "em_close", "s_close", "link_close"}

\* the entries of stack that carry key
Carrying(stack, key) == {i \in 1..Len(stack) : key \in DOMAIN stack[i]}

\* stack without its entry i, the others in their order
WithoutEntry(stack, i) ==
    [j \in 1..(Len(stack) - 1) |-> IF j < i THEN stack[j] ELSE stack[j + 1]]

\* the step processes a token of this type
Processes(type) ==
    /\ Len(tokens') = Len(tokens) + 1
    /\ tokens'[Len(tokens')].type = type

C24_CloseStep ==
    /\ \A type \in CloseTypes :
          (Processes(type) /\ Carrying(context.formattingStack, ConstructOf[type]) # {}) =>
              LET stack == context.formattingStack
                  nearest == CHOOSE i \in Carrying(stack, ConstructOf[type]) :
                                \A j \in Carrying(stack, ConstructOf[type]) : j <= i
              IN context'.formattingStack = WithoutEntry(stack, nearest)
    /\ Processes("code_inline") => context'.formattingStack = context.formattingStack

\* C24: a close token for style key k (strong -> bold, em -> italic, s ->
\* strikethrough, link -> link) removes exactly one formatting-stack entry,
\* the entry nearest the top that carries k, even when it is not the top
\* entry, and leaves every other entry and their relative order unchanged;
\* the close of an inline code removes the code entry the same token pushed.
C24_NearestEntryRemoved == [][C24_CloseStep]_vars

\* bold, bold, italic, then strong_close: the second entry went, the italic above it stayed
C24_Witness ==
    /\ Len(tokens) = 4
    /\ tokens[4].type = "strong_close"
    /\ tokens[3].type = "em_open"
    /\ tokens[2].type = "strong_open"
    /\ tokens[1].type = "strong_open"
    /\ context.formattingStack = <<Fragment("bold", TRUE), Fragment("italic", TRUE)>>

(***************************************************************************)
(* Close tokens that match nothing.                                        *)
(***************************************************************************)
\* the step absorbs the token: the whole context is as before and nothing is raised
Absorbed == context' = context /\ pc' = "walking" /\ error' = NoError

C25_UnmatchedStep ==
    /\ (More /\ Walk(Tok("heading_close")) /\ context.currentHeadingLevel = Undefined) => Absorbed
    /\ (More /\ Walk(Tok("list_item_close")) /\ Len(context.openListItemStack) = 0) => Absorbed
    /\ \A type \in {"bullet_list_close", "ordered_list_close"} :
          (More /\ Walk(Tok(type)) /\ Len(context.listStack) = 0) => Absorbed
    /\ \A type \in CloseTypes :
          (More /\ Walk(Tok(type)) /\ Carrying(context.formattingStack, ConstructOf[type]) = {})
              => Absorbed

\* C25: an unmatched close token is absorbed as a no-op: a heading_close
\* with no active heading level, a list_item_close with no open list item,
\* a bullet_list_close or ordered_list_close with no open list, and a
\* strong / em / s / link close with no stack entry carrying its key each
\* leave the entire context unchanged (no insertion, no offset change, no
\* range or list item recorded or modified) and raise nothing.
C25_UnmatchedCloseAbsorbed == [][C25_UnmatchedStep]_vars

\* three tokens were processed and the context is still the initial one, as after three unmatched closes
C25_Witness ==
    /\ pc = "walking"
    /\ ntokens = 3
    /\ error = NoError
    /\ context = NewContext(startIndex, NoTab)

(***************************************************************************)
(* Balanced inline runs: for each construct, no prefix holds more closes   *)
(* than opens, and the whole run holds as many of each.                    *)
(***************************************************************************)
OpenTypes == {"strong_open", "em_open", "s_open", "link_open"}

CountOf(run, n, types, kind) ==
    Cardinality({i \in 1..n : run[i].type \in types /\ ConstructOf[run[i].type] = kind})

Balanced(run) ==
    \A kind \in {"bold", "italic", "strikethrough", "link"} :
        /\ \A n \in 1..Len(run) : CountOf(run, n, CloseTypes, kind) <= CountOf(run, n, OpenTypes, kind)
        /\ CountOf(run, Len(run), CloseTypes, kind) = CountOf(run, Len(run), OpenTypes, kind)

\* C26 as stated: at the end of every conversion that returns without
\* raising the formatting stack is empty, for every token sequence the walker
\* accepts.
C26_StackEmptyAtReturn ==
    Returned => context.formattingStack = <<>>

\* C26 amended: at the end of every conversion that returns without raising
\* the formatting stack is empty, for every token sequence in which every
\* inline open has its close (no prefix holds more closes of a construct
\* than opens, and the sequence holds as many of each), as in every stream
\* the tokenizer produces: every fragment pushed by an inline open has been
\* removed by the time the operation list is returned.
C26_StackEmptyWhenBalanced ==
    (Returned /\ Balanced(tokens)) => context.formattingStack = <<>>

\* a link and a bold that overlap, each closed: the run is balanced and the conversion returned
C26_Witness ==
    /\ Returned
    /\ Len(tokens) = 4
    /\ tokens[1].type = "link_open" /\ getLinkHref(tokens[1]) = "u1"
    /\ tokens[2].type = "strong_open"
    /\ tokens[3].type = "link_close"
    /\ tokens[4].type = "strong_close"
    /\ Balanced(tokens)

(***************************************************************************)
(* The endIndex of the pending list items across a step.                   *)
(***************************************************************************)
EndBefore(i) == context.pendingListItems[i].endIndex
EndAfter(i) == context'.pendingListItems[i].endIndex

\* every endIndex that is set lies strictly beyond the start of its item
C27_EndBeyondStart ==
    \A i \in 1..Len(context.pendingListItems) :
        context.pendingListItems[i].endIndex # Undefined =>
            context.pendingListItems[i].endIndex > context.pendingListItems[i].startIndex

\* an endIndex that is set stays set and never decreases
C27_ForwardStep ==
    \A i \in 1..Len(context.pendingListItems) :
        EndBefore(i) # Undefined => (EndAfter(i) # Undefined /\ EndAfter(i) >= EndBefore(i))

\* C27: a list item's endIndex only moves forward: once set, every later
\* assignment to it (by a subsequent paragraph_close processed while the
\* item is the innermost open item) sets a value greater than or equal to
\* the previous value, and every assigned value is strictly greater than
\* the item's startIndex.
C27_EndOnlyForward == [][C27_ForwardStep]_vars /\ [](C27_EndBeyondStart)

\* an item with two paragraphs: the second paragraph_close moved its endIndex from start + 1 to start + 3
C27_Witness ==
    /\ Len(tokens) = 8
    /\ tokens[2].type = "list_item_open"
    /\ tokens[5].type = "paragraph_close"
    /\ tokens[8].type = "paragraph_close"
    /\ Len(context.pendingListItems) = 1
    /\ context.pendingListItems[1].endIndex = context.pendingListItems[1].startIndex + 3

\* the innermost open list item before the step, 0 when there is none
InnermostOpen ==
    IF Len(context.openListItemStack) = 0 THEN 0
    ELSE context.openListItemStack[Len(context.openListItemStack)]

\* C28 as stated: each pending list item's endIndex is filled in exactly
\* once during a conversion: after the first assignment no later token
\* assigns it again, including when the item contains several paragraphs.
C28_EndFilledOnce ==
    [][\A i \in 1..Len(context.pendingListItems) :
            EndBefore(i) # Undefined => EndAfter(i) = EndBefore(i)]_vars

C28_AssignStep ==
    \A i \in 1..Len(context.pendingListItems) :
        EndAfter(i) # EndBefore(i) =>
            /\ i = InnermostOpen
            /\ \/ Processes("paragraph_close")
               \/ Processes("list_item_close") /\ EndBefore(i) = Undefined

\* C28 amended: each pending list item's endIndex is assigned only while the
\* item is the innermost open item, by the close of a paragraph it contains
\* or, when no paragraph has set it, by its list_item_close; the
\* list_item_close never assigns an endIndex that is already set and no
\* token assigns it after the item is closed.  An item that contains
\* several paragraphs is assigned at the close of each of them, the last
\* one fixing the value.
C28_EndFilledWhileInnermost == [][C28_AssignStep]_vars

\* an item with two paragraphs was closed: its endIndex is the one its second paragraph assigned
C28_Witness ==
    /\ Len(tokens) = 9
    /\ tokens[2].type = "list_item_open"
    /\ tokens[5].type = "paragraph_close"
    /\ tokens[8].type = "paragraph_close"
    /\ tokens[9].type = "list_item_close"
    /\ Len(context.pendingListItems) = 1
    /\ context.pendingListItems[1].endIndex = context.pendingListItems[1].startIndex + 3

RangedOps == IF Returned THEN SelectSeq(result, LAMBDA r : ~IsInsert(r)) ELSE <<>>
NonEmptyRange(r) == RangeOf(r).startIndex < RangeOf(r).endIndex

\* C30: every range-addressed operation the conversion returns (a text
\* style, a heading style, a border, a bullet assignment) has a non-empty
\* range, startIndex < endIndex; this includes the style of a heading that
\* has no text.
C30_RangesNonEmpty ==
    \A k \in 1..Len(RangedOps) : NonEmptyRange(RangedOps[k])

\* the error handleListItemOpen throws for an item outside any list
CallerInputError == MarkdownConversionError(ListItemError)

CarriesMessageOf(thrown, err) ==
    thrown.isError => err.message \in {thrown.message, "Failed to convert markdown: " \o thrown.message}

C22_FaultStep ==
    \A thrown \in Thrown :
        Fault(thrown) => /\ result' = NoResult
                         /\ raised'.isError
                         /\ CarriesMessageOf(thrown, raised')
                         /\ raised'.class # CallerInputError.class

\* C22: a fault other than the caller-input error, thrown during the token
\* pass or during finalization, leaves the call as one conversion error that
\* carries the fault's message and whose class (its type, its tag) differs
\* from the class of the error raised for a list item outside any list.
C22_FaultWrappedAndTagged == [][C22_FaultStep]_vars

RECURSIVE Flatten(_)
Flatten(batches) == IF batches = <<>> THEN <<>> ELSE Head(batches) \o Flatten(Tail(batches))

Sent == Flatten(docs.calls)
KindOf(r) == CHOOSE key \in DOMAIN r : TRUE
\* 1 for a deletion, 2 for an insertion, 3 for any other request
GroupOf(r) ==
    CASE KindOf(r) = "deleteContentRange" -> 1
      [] KindOf(r) \in {"insertText", "insertTable"} -> 2
      [] OTHER -> 3
\* deletions, then insertions, then the rest; within a group in the order of the input
InPartitionOrder(sent) ==
    \A a, b \in 1..Len(sent) :
        a < b => \/ GroupOf(sent[a]) < GroupOf(sent[b])
                 \/ GroupOf(sent[a]) = GroupOf(sent[b]) /\ sent[a][KindOf(sent[a])].n < sent[b][KindOf(sent[b])].n
TimesSent(r) == Cardinality({k \in 1..Len(Sent) : Sent[k] = r})

C23_Sending ==
    /\ InPartitionOrder(Sent)
    /\ \A k \in 1..Len(split.requests) : TimesSent(split.requests[k]) <= 1
    /\ \A c \in 1..Len(docs.calls) : Len(docs.calls[c]) \in 1..50
    /\ docs.inFlight <= 1
    /\ split.pc = "returned" => \A k \in 1..Len(split.requests) : TimesSent(split.requests[k]) = 1

C23_CallAfterCompletion == Len(docs'.calls) > Len(docs.calls) => docs.inFlight = 0

\* C23: the batchUpdate calls of executeBatchUpdateWithSplitting, taken
\* together in call order, carry all deletions, then all insertions, then
\* all other requests, each group in the order of the input; no request is
\* sent twice and, once the function has returned, every request of the
\* input was sent exactly once; a call carries at most 50 requests and is
\* issued only when the call before it has completed.
C23_StablePartitionInBatches == [](C23_Sending) /\ [][C23_CallAfterCompletion]_vars

\* 302 requests were sent in eight calls: 100 deletions, 101 insertions, 101 others
C23_Witness ==
    /\ split.pc = "returned"
    /\ Len(split.requests) = 302
    /\ Len(docs.calls) = 8
    /\ Len(docs.calls[2]) = 50
    /\ Len(docs.calls[5]) = 1
    /\ Len(Sent) = 302

\* C29: when convertMarkdownToRequests raises inside
\* replaceDocumentWithMarkdown, no batchUpdate call was issued for that
\* invocation, neither the deletion of the existing content nor an insertion
\* or a formatting request: the document is as it was.
C29_NothingAppliedWhenConversionRaises ==
    (tool.pc \in {"convert", "raised"} /\ pc = "raised") => docs.calls = <<>>

BothReturned == Returned /\ other.pc = "returned"

====
